---- MODULE Spec2Model ----
(***************************************************************************)
(* Task orchestration engine of ralph (src/src/task/RalphLoop.mjs).        *)
(*                                                                         *)
(* One work item is modelled: its state directory holds prd.json and       *)
(* progress.json, one process at a time executes RalphLoop.run on it, and  *)
(* the process may be killed at any await point (the SIGINT handler of the *)
(* CLI calls process.exit).  Each action is one await-delimited segment of *)
(* run / init / saveState.                                                 *)
(***************************************************************************)
EXTENDS Integers, Sequences, FiniteSets, TLC

VARIABLES
    diskPrd,        \* prd.json of the state directory
    diskProgress,   \* progress.json of the state directory
    prd,            \* run's local `prd` (the userStories list)
    progress,       \* run's local `progress`
    pc,             \* position of the running process, "idle" when none runs
    after,          \* where control goes when the saveState in progress resolves
    nextTask,       \* run's local `nextTask`
    taskIndex,      \* run's local `taskIndex`
    templateSet,    \* run's local activeTemplateSet
    requestedSet,   \* run's parameter templateSet, until the first saveState is under way
    configPath,     \* run's local activeConfigPath
    requestedConfig, \* run's parameter configPath
    configPaths,    \* the values of --config the runs of this work item are started with
    dryRun,         \* run's parameter dryRun
    exitCode,       \* run's local exitCode; at pc = "return", the code run returns
    callResult,     \* what the last callClaude of this run resolved with
    inFlight,       \* child processes spawned by this run and not yet closed
    runs,           \* number of runs started so far
    savePrev,       \* documents on disk when the saveState in progress was called
    crashedTask,    \* the task whose invocation was in flight when the previous run was killed
    errorLogged,    \* task ids of the entries saveError appended to error.log in this run
    prdPaths,       \* CLI batch: number of work items of the batch (#state.prdPaths)
    batchIndex,     \* CLI batch: number of work items whose run has been started
    results,        \* CLI batch: acc.results
    finalExitCode,  \* CLI batch: acc.finalExitCode
    stopped,        \* CLI batch: acc.stopped
    fnStories,      \* resolver harness: userStories argument
    fnCompleted,    \* resolver harness: completedIds argument
    fnResult,       \* resolver harness: value returned by findNextTask
    usageStats,     \* RalphLoop.#usageStats
    usagePc,        \* usage: position of the process in run
    reported,       \* usage: sums of the usage reported by the invocations of the current run
    usageRuns,      \* usage: runs started in this process
    setConfig,      \* configuration: the set document given to UserConfig
    toolName,       \* configuration: getToolConfig's toolName
    phase,          \* configuration: getToolConfig's phase
    configResult,   \* configuration: what the UserConfig function called returned or threw
    logFile,        \* log: content of task.log / error.log
    logDamaged,     \* log: the file cannot be parsed (left cut short by a kill during a write)
    writerPc,       \* log: position of each writer in saveTaskLog / saveError
    existingLogs,   \* log: each writer's local existingLogs
    written,        \* log: the records whose write has completed, in order of completion
    writers,        \* log: the processes that write the log
    chunks,         \* stream: the data events of the child's stdout, in order
    fedChunks,      \* stream: number of data events handled so far
    streamBuffer,   \* stream: callClaude's streamBuffer
    events,         \* stream: the events parseStreamChunk has returned so far, in order
    resolved,       \* stream: what callClaude resolved with when the child closed
    text,           \* extraction: extractJson's text
    extracted,      \* extraction: what extractJson returned
    stateDirs,      \* directories: the state directories that hold a work item
    lastRun,        \* directories: what the last run was started on and what it loaded
    dirRuns,        \* directories: number of runs started so far
    reliable        \* from now on every task invocation returns a passing outcome for its task

vars == << diskPrd, diskProgress, prd, progress, pc, after, nextTask, taskIndex,
           templateSet, configPath, requestedSet, requestedConfig, configPaths,
           dryRun, exitCode, callResult, inFlight, runs,
           savePrev, crashedTask, errorLogged, prdPaths, batchIndex, results,
           finalExitCode, stopped, fnStories, fnCompleted, fnResult,
           usageStats, usagePc, reported, usageRuns,
           setConfig, toolName, phase, configResult,
           logFile, logDamaged, writerPc, existingLogs, written, writers,
           chunks, fedChunks, streamBuffer, events, resolved,
           text, extracted, stateDirs, lastRun, dirRuns, reliable >>

---------------------------------------------------------------------------
(* Bounds *)

MaxRuns == 3

---------------------------------------------------------------------------
(* EXIT_CODES *)

SUCCESS == 0
SCHEMA_INVALID == 2
TASK_FAILED == 3
TASK_BLOCKED == 4
CLAUDE_ERROR == 6
FILE_NOT_FOUND == 7
INVALID_ARGS == 8
UNKNOWN == 99
NoExit == 0 - 1

---------------------------------------------------------------------------
(* Data *)

ForeignId == "X"
Statuses == {"pending", "completed", "failed", "blocked"}
Null == "null"

Range(s) == { s[i] : i \in 1..Len(s) }

\* A story object, with the fields run and findNextTask read (title, notes,
\* commits, criteria, passes and the like are stored and never read again).
\* hasDependencies = FALSE stands for an object without a `dependencies`
\* array (story.dependencies is undefined).
Story(id, status, deps, hasDeps) ==
    [ id |-> id, status |-> status, dependencies |-> deps, hasDependencies |-> hasDeps ]

NoStory == Story(Null, Null, << >>, FALSE)

Pending(id, deps) == Story(id, "pending", deps, TRUE)

StoryOf(o) == Story(o.id, o.status, o.dependencies, o.hasDependencies)

\* An object returned by the agent for a task (structured_output, or the JSON
\* extracted from its text).  present = FALSE stands for null.
Object(id, status, deps, hasDeps, passes, sec) ==
    [ present |-> TRUE, id |-> id, status |-> status, dependencies |-> deps,
      hasDependencies |-> hasDeps, passes |-> passes, securityPassed |-> sec ]

NoObject ==
    [ present |-> FALSE, id |-> Null, status |-> Null, dependencies |-> << >>,
      hasDependencies |-> FALSE, passes |-> FALSE, securityPassed |-> FALSE ]

\* Objects the agent can answer with when it is given `task`: the task with
\* any status, passes flag and security check; the task under another id (one
\* no story has, or the id of the first story), passing or failed; the task
\* without its dependencies array, passing or not.
DuplicateId == "A"

ObjectsFor(task) ==
    { Object(task.id, st, task.dependencies, TRUE, ps, sec) :
        st \in Statuses, ps \in BOOLEAN, sec \in BOOLEAN }
    \cup
    { Object(id, IF ps THEN "completed" ELSE "failed", task.dependencies, TRUE, ps, TRUE) :
        id \in {ForeignId, DuplicateId}, ps \in BOOLEAN }
    \cup
    { Object(task.id, IF ps THEN "completed" ELSE "pending", << >>, FALSE, ps, TRUE) :
        ps \in BOOLEAN }

\* What callClaude resolves with: error (nonzero exit or spawn error),
\* contextManagement, structuredOutput, and `json`, the object extractJson
\* finds in the raw output (NoObject: parse error).
CallResult(err, ctx, so, js) ==
    [ error |-> err, contextManagement |-> ctx, structuredOutput |-> so, json |-> js ]

NoResult == CallResult(FALSE, FALSE, NoObject, NoObject)

\* the task as the agent's text and its structured output can report it when
\* the two differ
OwnObjects(task) ==
    { Object(task.id, "completed", task.dependencies, TRUE, TRUE, TRUE),
      Object(task.id, "failed", task.dependencies, TRUE, FALSE, TRUE) }

CallResultsFor(task) ==
    { CallResult(err, ctx, so, NoObject) :
        err \in BOOLEAN, ctx \in BOOLEAN, so \in ObjectsFor(task) }
    \cup
    { CallResult(err, ctx, NoObject, js) :
        err \in BOOLEAN, ctx \in BOOLEAN, js \in ObjectsFor(task) \cup {NoObject} }
    \cup
    { r \in { CallResult(err, FALSE, so, js) :
                  err \in BOOLEAN, so \in OwnObjects(task), js \in OwnObjects(task) } :
        r.structuredOutput # r.json }

\* The persisted documents.  kind is "absent" (no file), "invalid" (the file
\* does not parse) or "valid".
PrdDoc(kind, stories) == [ kind |-> kind, userStories |-> stories ]

Progress(kind, status, completed, current, total, lastErr, ts, cp) ==
    [ kind |-> kind, status |-> status, completedTasks |-> completed,
      currentTask |-> current, totalTasks |-> total, lastError |-> lastErr,
      templateSet |-> ts, configPath |-> cp ]

NoProgress == Progress("absent", Null, << >>, Null, 0, Null, Null, Null)
InvalidProgress == Progress("invalid", Null, << >>, Null, 0, Null, Null, Null)
NoPrd == PrdDoc("absent", << >>)
InvalidPrd == PrdDoc("invalid", << >>)

\* the resolver harness has not called findNextTask yet
NotCalled == [ called |-> FALSE, value |-> 0 ]

\* no saveState in progress
NoSave == << NoPrd, NoProgress >>

TemplateSets == {"default", "setA"}

\* the --config option: not given, or the path of a set configuration
ConfigPaths == {Null, "cfgA", "cfgB"}

\* Work items the conversion agent answers with (init stores the object it
\* gets without validating the stories).
Catalog ==
    { << Pending("A", << >>), Pending("B", <<"A">>), Pending("C", <<"A">>) >>,
      << Pending("B", <<"A">>), Pending("A", << >>) >>,
      << Pending("A", << >>), Pending("B", <<ForeignId>>) >> }

---------------------------------------------------------------------------
(* The parts of the program that are modelled on their own: the usage
   accumulator, the set configuration functions, the log writers, the stream
   parser and the result extraction.  Each has its variables, which the
   engine's actions leave alone, and a value for them when it is not
   exercised. *)

usageVars == << usageStats, usagePc, reported, usageRuns >>
configVars == << setConfig, toolName, phase, configResult >>
logVars == << logFile, logDamaged, writerPc, existingLogs, written, writers >>
streamVars == << chunks, fedChunks, streamBuffer, events, resolved >>
extractVars == << text, extracted >>
dirVars == << stateDirs, lastRun, dirRuns >>

others == << usageVars, configVars, logVars, streamVars, extractVars, dirVars, reliable >>

\* RalphLoop.#usageStats as declared (lines 27-35); the token and cost totals
\* are all updated alike and are represented by totalInputTokens
Usage(tokens, count) == [ totalInputTokens |-> tokens, taskCount |-> count ]

NoUsage == Usage(0, 0)

usageAtRest ==
    /\ usageStats = NoUsage
    /\ usagePc = "idle"
    /\ reported = NoUsage
    /\ usageRuns = 0

configAtRest ==
    /\ setConfig = Null
    /\ toolName = Null
    /\ phase = Null
    /\ configResult = NotCalled

logAtRest ==
    /\ logFile = << >>
    /\ logDamaged = FALSE
    /\ writerPc = << >>
    /\ existingLogs = << >>
    /\ written = << >>
    /\ writers = 0

streamAtRest ==
    /\ chunks = << >>
    /\ fedChunks = 0
    /\ streamBuffer = << >>
    /\ events = << >>
    /\ resolved = NotCalled

extractAtRest ==
    /\ text = << >>
    /\ extracted = NotCalled

dirAtRest ==
    /\ stateDirs = {}
    /\ lastRun = NotCalled
    /\ dirRuns = 0

othersAtRest ==
    /\ usageAtRest
    /\ configAtRest
    /\ logAtRest
    /\ streamAtRest
    /\ extractAtRest
    /\ dirAtRest
    /\ reliable = FALSE

---------------------------------------------------------------------------
(* findNextTask: Array.prototype.find over userStories, in order.  The value
   is the index of the story found, 0 for null, and Throws when the predicate
   reads story.dependencies.every on a story without dependencies. *)

Throws == 0 - 1

RECURSIVE find(_, _, _)
find(userStories, completedSet, i) ==
    IF i > Len(userStories) THEN 0
    ELSE LET story == userStories[i] IN
         IF story.id \in completedSet THEN find(userStories, completedSet, i + 1)
         ELSE IF story.status = "completed" \/ story.status = "failed"
              THEN find(userStories, completedSet, i + 1)
         ELSE IF ~story.hasDependencies THEN Throws
         ELSE IF \A k \in 1..Len(story.dependencies) :
                     story.dependencies[k] \in completedSet
              THEN i
         ELSE find(userStories, completedSet, i + 1)

RECURSIVE findRetryingFailed(_, _, _)
findRetryingFailed(userStories, completedSet, i) ==
    IF i > Len(userStories) THEN 0
    ELSE LET story == userStories[i] IN
         IF story.id \in completedSet
         THEN findRetryingFailed(userStories, completedSet, i + 1)
         ELSE IF story.status = "completed"
              THEN findRetryingFailed(userStories, completedSet, i + 1)
         ELSE IF \A k \in 1..Len(story.dependencies) :
                     story.dependencies[k] \in completedSet
              THEN i
         ELSE findRetryingFailed(userStories, completedSet, i + 1)

findNextTaskRetryingFailed(userStories, completedIds) ==
    findRetryingFailed(userStories, Range(completedIds), 1)

RECURSIVE findIgnoringDependencies(_, _, _)
findIgnoringDependencies(userStories, completedSet, i) ==
    IF i > Len(userStories) THEN 0
    ELSE LET story == userStories[i] IN
         IF story.id \in completedSet
         THEN findIgnoringDependencies(userStories, completedSet, i + 1)
         ELSE IF story.status = "completed" \/ story.status = "failed"
              THEN findIgnoringDependencies(userStories, completedSet, i + 1)
         ELSE i

findNextTaskIgnoringDependencies(userStories, completedIds) ==
    findIgnoringDependencies(userStories, Range(completedIds), 1)

findNextTask(userStories, completedIds) ==
    find(userStories, Range(completedIds), 1)

\* prd.userStories.findIndex( s => s.id === id ), 1-based, 0 when none
RECURSIVE findIndexFrom(_, _, _)
findIndexFrom(userStories, id, i) ==
    IF i > Len(userStories) THEN 0
    ELSE IF userStories[i].id = id THEN i
    ELSE findIndexFrom(userStories, id, i + 1)

findIndex(userStories, id) == findIndexFrom(userStories, id, 1)

allDoneCountingFailed(userStories, completedTasks) ==
    \A i \in 1..Len(userStories) :
        \/ userStories[i].status = "completed"
        \/ userStories[i].status = "failed"
        \/ userStories[i].id \in Range(completedTasks)

\* allDone of run
allDone(userStories, completedTasks) ==
    \A i \in 1..Len(userStories) :
        userStories[i].status = "completed" \/ userStories[i].id \in Range(completedTasks)

---------------------------------------------------------------------------
(* executeTask, from the point where callClaude has resolved *)

TaskResult(success, updatedTask, code) ==
    [ success |-> success, updatedTask |-> updatedTask, exitCode |-> code ]

checkResult(updatedTask) ==
    IF ~updatedTask.securityPassed
    THEN TaskResult(FALSE, updatedTask, TASK_FAILED)
    ELSE IF updatedTask.passes
    THEN TaskResult(TRUE, updatedTask, SUCCESS)
    ELSE IF updatedTask.status = "blocked"
    THEN TaskResult(FALSE, updatedTask, TASK_BLOCKED)
    ELSE TaskResult(FALSE, updatedTask, TASK_FAILED)

\* executeTask, lines 1096 and 1111: the branches that call saveError
savesError(r) ==
    /\ ~r.contextManagement
    /\ ~r.structuredOutput.present
    /\ (r.error \/ ~r.json.present)

executeTaskErrorFirst(r) ==
    IF r.contextManagement THEN TaskResult(FALSE, NoObject, TASK_FAILED)
    ELSE IF r.error THEN TaskResult(FALSE, NoObject, CLAUDE_ERROR)
    ELSE IF r.structuredOutput.present THEN checkResult(r.structuredOutput)
    ELSE IF ~r.json.present THEN TaskResult(FALSE, NoObject, SCHEMA_INVALID)
    ELSE checkResult(r.json)

executeTaskIgnoringCompaction(r) ==
    IF r.structuredOutput.present THEN checkResult(r.structuredOutput)
    ELSE IF r.error THEN TaskResult(FALSE, NoObject, CLAUDE_ERROR)
    ELSE IF ~r.json.present THEN TaskResult(FALSE, NoObject, SCHEMA_INVALID)
    ELSE checkResult(r.json)

executeTask(r) ==
    IF r.contextManagement THEN TaskResult(FALSE, NoObject, TASK_FAILED)
    ELSE IF r.structuredOutput.present THEN checkResult(r.structuredOutput)
    ELSE IF r.error THEN TaskResult(FALSE, NoObject, CLAUDE_ERROR)
    ELSE IF ~r.json.present THEN TaskResult(FALSE, NoObject, SCHEMA_INVALID)
    ELSE checkResult(r.json)

---------------------------------------------------------------------------
(* init, from the point where the conversion callClaude has resolved *)

PrdObject(stories) == [ present |-> TRUE, userStories |-> stories ]
NoPrdObject == [ present |-> FALSE, userStories |-> << >> ]

\* valid: prd.constraintsValid is not false and validatePaths reports no error
ConversionResult(err, ctx, so, js, valid) ==
    [ error |-> err, contextManagement |-> ctx, structuredOutput |-> so,
      json |-> js, valid |-> valid ]

ConversionResults ==
    { ConversionResult(err, ctx, PrdObject(p), NoPrdObject, v) :
        err \in BOOLEAN, ctx \in BOOLEAN, p \in Catalog, v \in BOOLEAN }
    \cup
    { ConversionResult(err, ctx, NoPrdObject, js, v) :
        err \in BOOLEAN, ctx \in BOOLEAN,
        js \in { PrdObject(p) : p \in Catalog } \cup {NoPrdObject}, v \in BOOLEAN }
    \cup
    { r \in { ConversionResult(err, ctx, PrdObject(p), PrdObject(q), TRUE) :
                  err \in BOOLEAN, ctx \in BOOLEAN, p \in Catalog, q \in Catalog } :
        r.structuredOutput # r.json }

InitResult(success, code, stories) ==
    [ success |-> success, exitCode |-> code, userStories |-> stories ]

validate(r, obj) ==
    IF r.contextManagement THEN InitResult(FALSE, TASK_FAILED, << >>)
    ELSE IF ~r.valid THEN InitResult(FALSE, SCHEMA_INVALID, << >>)
    ELSE InitResult(TRUE, SUCCESS, obj.userStories)

initErrorFirst(r) ==
    IF r.error THEN InitResult(FALSE, CLAUDE_ERROR, << >>)
    ELSE IF r.structuredOutput.present THEN validate(r, r.structuredOutput)
    ELSE IF ~r.json.present THEN InitResult(FALSE, SCHEMA_INVALID, << >>)
    ELSE validate(r, r.json)

init(r) ==
    IF r.structuredOutput.present THEN validate(r, r.structuredOutput)
    ELSE IF r.error THEN InitResult(FALSE, CLAUDE_ERROR, << >>)
    ELSE IF ~r.json.present THEN InitResult(FALSE, SCHEMA_INVALID, << >>)
    ELSE validate(r, r.json)

\* the progress object init creates
initialProgress(stories, ts, cp) ==
    Progress("valid", "initialized", << >>, Null, Len(stories), Null, ts, cp)

---------------------------------------------------------------------------
(* State *)

Init ==
    /\ diskPrd = NoPrd
    /\ diskProgress = NoProgress
    /\ prd = << >>
    /\ progress = NoProgress
    /\ pc = "idle"
    /\ after = "none"
    /\ nextTask = NoStory
    /\ taskIndex = 0
    /\ templateSet = "default"
    /\ requestedSet = "default"
    /\ configPath = Null
    /\ requestedConfig = Null
    /\ configPaths = {Null}
    /\ dryRun = FALSE
    /\ exitCode = NoExit
    /\ callResult = NoResult
    /\ inFlight = 0
    /\ runs = 0
    /\ savePrev = NoSave
    /\ crashedTask = NoStory
    /\ errorLogged = << >>
    /\ prdPaths = 0
    /\ batchIndex = 0
    /\ results = << >>
    /\ finalExitCode = SUCCESS
    /\ stopped = FALSE
    /\ fnStories = << >>
    /\ fnCompleted = << >>
    /\ fnResult = NotCalled
    /\ othersAtRest

harness == << fnStories, fnCompleted, fnResult, configPaths, others >>

\* the accumulator of the CLI's batch
batch == << prdPaths, batchIndex, results, finalExitCode, stopped >>

existingProgressOnly == diskProgress.kind = "valid"

\* checkExistingProject: exists && prd && progress
existing == diskPrd.kind = "valid" /\ diskProgress.kind = "valid"

callSaveStateNotAwaited(stories, prog, k) ==
    /\ prd' = stories
    /\ progress' = prog
    /\ pc' = k
    /\ after' = "none"
    /\ savePrev' = NoSave

\* a call of saveState( { ralphDir, prd, progress } ) with the given objects;
\* control continues at `k` when it resolves
callSaveState(stories, prog, k) ==
    /\ prd' = stories
    /\ progress' = prog
    /\ pc' = "save_prd"
    /\ after' = k
    /\ savePrev' = << diskPrd, diskProgress >>

\* run returns { exitCode: code }
returning(code) ==
    /\ pc' = "return"
    /\ exitCode' = code
    /\ after' = "none"
    /\ UNCHANGED << savePrev >>

\* the locals of a run that has ended
forget ==
    /\ prd' = << >>
    /\ progress' = NoProgress
    /\ after' = "none"
    /\ nextTask' = NoStory
    /\ taskIndex' = 0
    /\ templateSet' = "default"
    /\ requestedSet' = "default"
    /\ configPath' = Null
    /\ requestedConfig' = Null
    /\ dryRun' = FALSE
    /\ callResult' = NoResult
    /\ inFlight' = 0
    /\ exitCode' = NoExit
    /\ savePrev' = NoSave
    /\ errorLogged' = << >>

---------------------------------------------------------------------------
(* run *)

startLoopSkippingCurrent(stories, prog) ==
    IF dryRun'
    THEN /\ prd' = stories
         /\ progress' = prog
         /\ returning(SUCCESS)
    ELSE /\ callSaveState(stories,
                          [prog EXCEPT !.status = "running",
                                       !.completedTasks =
                                           IF prog.currentTask = Null THEN @
                                           ELSE Append(@, prog.currentTask)],
                          "loop")
         /\ exitCode' = SUCCESS

\* run, lines 1255-1284: the dry run check, then status 'running' and saveState
startLoop(stories, prog) ==
    IF dryRun'
    THEN /\ prd' = stories
         /\ progress' = prog
         /\ returning(SUCCESS)
    ELSE /\ callSaveState(stories, [prog EXCEPT !.status = "running"], "loop")
         /\ exitCode' = SUCCESS

\* run, lines 1213-1243: what a run does with the state it found
resumeWithoutCompletedCheck(ts, prog) ==
    IF ts # "default" /\ ts # prog.templateSet THEN "reject" ELSE "go"

resumeCompletedFirst(ts, prog) ==
    IF prog.status = "completed" THEN "done"
    ELSE IF ts # "default" /\ ts # prog.templateSet THEN "reject"
    ELSE "go"

resumeOutcome(ts, prog) ==
    IF ts # "default" /\ ts # prog.templateSet THEN "reject"
    ELSE IF prog.status = "completed" THEN "done"
    ELSE "go"

activeTemplateSetRequested(ts, prog) == ts

\* run, line 1231: activeTemplateSet = progress.templateSet
activeTemplateSet(ts, prog) == prog.templateSet

\* run, line 1232: activeConfigPath = progress.configPath || configPath
activeConfigPath(cp, prog) == IF prog.configPath # Null THEN prog.configPath ELSE cp

\* run, lines 1177-1253, on an existing project
Resume ==
    /\ pc = "idle"
    /\ runs < MaxRuns
    /\ existing
    /\ runs' = runs + 1
    /\ \E ts \in TemplateSets, cp \in configPaths, dr \in BOOLEAN :
        /\ dryRun' = dr
        /\ requestedSet' = ts
        /\ requestedConfig' = cp
        /\ templateSet' = IF resumeOutcome(ts, diskProgress) = "reject"
                          THEN ts ELSE activeTemplateSet(ts, diskProgress)
        /\ configPath' = IF resumeOutcome(ts, diskProgress) = "reject"
                         THEN cp ELSE activeConfigPath(cp, diskProgress)
        /\ IF resumeOutcome(ts, diskProgress) = "reject"
           THEN /\ prd' = diskPrd.userStories
                /\ progress' = diskProgress
                /\ returning(INVALID_ARGS)
           ELSE IF resumeOutcome(ts, diskProgress) = "done"
           THEN /\ prd' = diskPrd.userStories
                /\ progress' = diskProgress
                /\ returning(SUCCESS)
           ELSE startLoop(diskPrd.userStories, diskProgress)
    /\ UNCHANGED << diskPrd, diskProgress, nextTask, taskIndex, callResult, inFlight,
                    crashedTask, harness, batch, errorLogged >>

\* run, lines 1244-1245 and init, lines 749-819: no usable state, the source
\* is read and the conversion call is started
Convert ==
    /\ pc = "idle"
    /\ runs < MaxRuns
    /\ ~existing
    /\ runs' = runs + 1
    /\ \E ts \in TemplateSets, cp \in configPaths, dr \in BOOLEAN, readable \in BOOLEAN :
        /\ templateSet' = ts
        /\ requestedSet' = ts
        /\ configPath' = cp
        /\ requestedConfig' = cp
        /\ dryRun' = dr
        /\ IF readable
           THEN /\ pc' = "init"
                /\ inFlight' = inFlight + 1
                /\ exitCode' = NoExit
                /\ UNCHANGED << after, savePrev >>
           ELSE /\ returning(FILE_NOT_FOUND)
                /\ UNCHANGED inFlight
    /\ UNCHANGED << diskPrd, diskProgress, prd, progress, nextTask, taskIndex,
                    callResult, crashedTask, harness, batch, errorLogged >>

\* init, lines 821-956: the conversion call resolves
Converted ==
    /\ pc = "init"
    /\ inFlight' = inFlight - 1
    /\ \E r \in ConversionResults :
        LET res == init(r) IN
        /\ callResult' = r
        /\ IF res.success
           THEN /\ callSaveState(res.userStories,
                                 initialProgress(res.userStories, templateSet, configPath),
                                 "init_done")
                /\ UNCHANGED exitCode
           ELSE /\ returning(res.exitCode)
                /\ UNCHANGED << prd, progress >>
    /\ UNCHANGED << diskPrd, diskProgress, nextTask, taskIndex, templateSet, configPath, dryRun,
                    runs, crashedTask, harness, batch, errorLogged,
                    requestedSet, requestedConfig >>

\* init, lines 958-967 and run, lines 1247-1284
Initialized ==
    /\ pc = "init_done"
    /\ dryRun' = dryRun
    /\ startLoop(prd, progress)
    /\ UNCHANGED << diskPrd, diskProgress, nextTask, taskIndex, templateSet, configPath,
                    callResult, inFlight, runs, crashedTask, harness, batch, errorLogged,
                    requestedSet, requestedConfig >>

\* saveState, line 241
WritePrd ==
    /\ pc = "save_prd"
    /\ diskPrd' = PrdDoc("valid", prd)
    /\ pc' = "save_progress"
    /\ callResult' = NoResult
    /\ requestedSet' = "default"
    /\ UNCHANGED << requestedConfig, diskProgress, prd, progress, after, nextTask, taskIndex, templateSet, configPath,
                    dryRun, exitCode, inFlight, runs, savePrev,
                    crashedTask, harness, batch, errorLogged >>

WriteProgressSkipped ==
    /\ pc = "save_progress"
    /\ pc' = after
    /\ after' = "none"
    /\ savePrev' = NoSave
    /\ UNCHANGED << diskPrd, diskProgress, prd, progress, nextTask, taskIndex,
                    templateSet, configPath, dryRun, exitCode, callResult, inFlight, runs,
                    crashedTask, harness, batch, errorLogged,
                    requestedSet, requestedConfig >>

\* saveState, lines 242-244
WriteProgress ==
    /\ pc = "save_progress"
    /\ diskProgress' = progress
    /\ pc' = after
    /\ after' = "none"
    /\ savePrev' = NoSave
    /\ UNCHANGED << diskPrd, prd, progress, nextTask, taskIndex, templateSet, configPath,
                    dryRun, exitCode, callResult, inFlight, runs,
                    crashedTask, harness, batch, errorLogged,
                    requestedSet, requestedConfig >>

\* run, lines 1366-1369: prd.userStories[ taskIndex ] = updatedTask
updateStories(stories, idx, res) ==
    IF res.updatedTask.present
    THEN [ stories EXCEPT ![idx] = StoryOf(res.updatedTask) ]
    ELSE stories

updateProgressForgettingTask(prog, task, res) ==
    IF res.success
    THEN [ prog EXCEPT !.currentTask = Null ]
    ELSE [ prog EXCEPT !.currentTask = Null,
                       !.status = IF res.exitCode = TASK_BLOCKED THEN "blocked" ELSE "paused",
                       !.lastError = task.id ]

updateProgressClearingError(prog, task, res) ==
    IF res.success
    THEN [ prog EXCEPT !.completedTasks = Append(@, task.id),
                       !.currentTask = Null,
                       !.lastError = Null ]
    ELSE [ prog EXCEPT !.currentTask = Null,
                       !.status = IF res.exitCode = TASK_BLOCKED THEN "blocked" ELSE "paused",
                       !.lastError = task.id ]

updateProgressAlwaysPaused(prog, task, res) ==
    IF res.success
    THEN [ prog EXCEPT !.completedTasks = Append(@, task.id),
                       !.currentTask = Null ]
    ELSE [ prog EXCEPT !.currentTask = Null,
                       !.status = "paused",
                       !.lastError = task.id ]

\* run, lines 1371-1386
updateProgress(prog, task, res) ==
    IF res.success
    THEN [ prog EXCEPT !.completedTasks = Append(@, task.id),
                       !.currentTask = Null ]
    ELSE [ prog EXCEPT !.currentTask = Null,
                       !.status = IF res.exitCode = TASK_BLOCKED THEN "blocked" ELSE "paused",
                       !.lastError = task.id ]

\* run, lines 1299-1336: no next task
finalStatus(stories, prog) ==
    IF allDone(stories, prog.completedTasks) THEN "completed" ELSE "blocked"

\* run, lines 1293-1354: one pass of the loop up to the saveState before executeTask
Select ==
    /\ pc = "loop"
    /\ LET i == findNextTask(prd, progress.completedTasks) IN
        IF i = Throws
        THEN /\ returning(UNKNOWN)
             /\ UNCHANGED << prd, progress, nextTask, taskIndex >>
        ELSE IF i = 0
        THEN /\ callSaveState(prd, [progress EXCEPT !.status = finalStatus(prd, progress)],
                              "return")
             /\ UNCHANGED << exitCode, nextTask, taskIndex >>
        ELSE /\ nextTask' = prd[i]
             /\ taskIndex' = findIndex(prd, prd[i].id)
             /\ callSaveState(prd, [progress EXCEPT !.currentTask = prd[i].id], "call")
             /\ UNCHANGED exitCode
    /\ crashedTask' = NoStory
    /\ UNCHANGED << diskPrd, diskProgress, templateSet, configPath, dryRun, callResult, inFlight,
                    runs, harness, batch, errorLogged,
                    requestedSet, requestedConfig >>

\* executeTask, lines 973-1040 and callClaude, line 326: the agent is spawned
Spawn ==
    /\ pc = "call"
    /\ pc' = "exec"
    /\ inFlight' = inFlight + 1
    /\ UNCHANGED << diskPrd, diskProgress, prd, progress, after, nextTask, taskIndex,
                    templateSet, configPath, dryRun, exitCode, callResult, runs, savePrev,
                    crashedTask, harness, batch, errorLogged,
                    requestedSet, requestedConfig >>

\* callClaude resolves; executeTask, lines 1042-1171 with its saveError;
\* run, lines 1366-1388
TaskReturned ==
    /\ pc = "exec"
    /\ inFlight' = inFlight - 1
    /\ \E r \in CallResultsFor(nextTask) :
        LET res == executeTask(r) IN
        /\ callResult' = r
        /\ callSaveState(updateStories(prd, taskIndex, res),
                         updateProgress(progress, nextTask, res),
                         IF res.success THEN "loop" ELSE "return")
        /\ exitCode' = IF res.success THEN exitCode ELSE res.exitCode
        /\ errorLogged' = IF savesError(r) THEN Append(errorLogged, nextTask.id)
                          ELSE errorLogged
    /\ UNCHANGED << diskPrd, diskProgress, nextTask, taskIndex, templateSet, configPath, dryRun,
                    runs, crashedTask, harness, batch, requestedSet, requestedConfig >>

\* run, lines 1391-1423: the run returns its exit code and the process ends
Return ==
    /\ pc = "return"
    /\ pc' = "idle"
    /\ forget
    /\ crashedTask' = NoStory
    /\ UNCHANGED << diskPrd, diskProgress, runs, harness, batch >>

\* The process is killed (SIGINT handler: process.exit) at an await point.
Crash ==
    /\ pc \notin {"idle", "return"}
    /\ pc' = "idle"
    /\ forget
    /\ crashedTask' = IF pc = "exec" THEN nextTask ELSE NoStory
    /\ UNCHANGED << diskPrd, diskProgress, runs, harness, batch >>

\* The process is killed while fs.writeFile has truncated the file and not
\* yet written it out.
CrashInWrite ==
    /\ pc \in {"save_prd", "save_progress"}
    /\ IF pc = "save_prd"
       THEN diskPrd' = InvalidPrd /\ UNCHANGED diskProgress
       ELSE diskProgress' = InvalidProgress /\ UNCHANGED diskPrd
    /\ pc' = "idle"
    /\ forget
    /\ crashedTask' = NoStory
    /\ UNCHANGED << runs, harness, batch >>

Next ==
    \/ Resume
    \/ Convert
    \/ Converted
    \/ Initialized
    \/ WritePrd
    \/ WriteProgress
    \/ Select
    \/ Spawn
    \/ TaskReturned
    \/ Return
    \/ Crash
    \/ CrashInWrite

Spec == Init /\ [][Next]_vars

---------------------------------------------------------------------------
(* Resolver harness: findNextTask applied to drawn arguments *)

MaxStories == 3

IdAt == << "A", "B", "C", "D", "E" >>

DependencyLists == { << >>, <<"A">>, <<"A", "B">>, <<ForeignId>> }

CompletedLists == { << >>, <<"A">>, <<"B">>, <<"A", "B">>, <<"B", "A">>, <<"A", "B", "C">> }

\* story lists of n stories with the ids A, B, ... in declaration order
StoryLists(n) ==
    { [ i \in 1..n |-> Story(IdAt[i], st[i], dp[i], TRUE) ] :
        st \in [1..n -> Statuses], dp \in [1..n -> DependencyLists] }

InitFind ==
    /\ diskPrd = NoPrd
    /\ diskProgress = NoProgress
    /\ prd = << >>
    /\ progress = NoProgress
    /\ pc = "idle"
    /\ after = "none"
    /\ nextTask = NoStory
    /\ taskIndex = 0
    /\ templateSet = "default"
    /\ requestedSet = "default"
    /\ configPath = Null
    /\ requestedConfig = Null
    /\ configPaths = {Null}
    /\ dryRun = FALSE
    /\ exitCode = NoExit
    /\ callResult = NoResult
    /\ inFlight = 0
    /\ runs = 0
    /\ savePrev = NoSave
    /\ crashedTask = NoStory
    /\ errorLogged = << >>
    /\ prdPaths = 0
    /\ batchIndex = 0
    /\ results = << >>
    /\ finalExitCode = SUCCESS
    /\ stopped = FALSE
    /\ \E n \in 0..MaxStories : fnStories \in StoryLists(n)
    /\ fnCompleted \in CompletedLists
    /\ fnResult = NotCalled
    /\ othersAtRest

CallFindNextTask ==
    /\ ~fnResult.called
    /\ fnResult' = [ called |-> TRUE, value |-> findNextTask(fnStories, fnCompleted) ]
    /\ UNCHANGED << diskPrd, diskProgress, prd, progress, pc, after, nextTask, taskIndex,
                    templateSet, configPath, requestedSet, requestedConfig, configPaths,
                    dryRun, exitCode, callResult, inFlight,
                    runs, savePrev, crashedTask, errorLogged, batch, fnStories,
                    fnCompleted, others >>

NextFind == CallFindNextTask

SpecFind == InitFind /\ [][NextFind]_vars

---------------------------------------------------------------------------
(* CLI.#executeRun: the work items of a batch are run one after the other.
   diskPrd and diskProgress are the state directory of the work item being
   processed; every work item of the batch starts without state. *)

MaxBatch == 2

InitBatch ==
    /\ diskPrd = NoPrd
    /\ diskProgress = NoProgress
    /\ prd = << >>
    /\ progress = NoProgress
    /\ pc = "idle"
    /\ after = "none"
    /\ nextTask = NoStory
    /\ taskIndex = 0
    /\ templateSet = "default"
    /\ requestedSet = "default"
    /\ configPath = Null
    /\ requestedConfig = Null
    /\ configPaths = {Null}
    /\ dryRun = FALSE
    /\ exitCode = NoExit
    /\ callResult = NoResult
    /\ inFlight = 0
    /\ runs = 0
    /\ savePrev = NoSave
    /\ crashedTask = NoStory
    /\ errorLogged = << >>
    /\ prdPaths \in 1..MaxBatch
    /\ batchIndex = 0
    /\ results = << >>
    /\ finalExitCode = SUCCESS
    /\ stopped = FALSE
    /\ fnStories = << >>
    /\ fnCompleted = << >>
    /\ fnResult = NotCalled
    /\ othersAtRest

\* the reduce callback, lines 418-440, and the start of RalphLoop.run on a
\* work item without state (run, lines 1198-1245; init, lines 749-819)
RunItem ==
    /\ pc = "idle"
    /\ batchIndex < prdPaths
    /\ ~stopped
    /\ batchIndex' = batchIndex + 1
    /\ diskPrd' = NoPrd
    /\ diskProgress' = NoProgress
    /\ templateSet' = "default"
    /\ requestedSet' = "default"
    /\ configPath' = Null
    /\ requestedConfig' = Null
    /\ dryRun' = FALSE
    /\ \E readable \in BOOLEAN :
        IF readable
        THEN /\ pc' = "init"
             /\ inFlight' = inFlight + 1
             /\ exitCode' = NoExit
             /\ UNCHANGED << after, savePrev >>
        ELSE /\ returning(FILE_NOT_FOUND)
             /\ UNCHANGED inFlight
    /\ UNCHANGED << prd, progress, nextTask, taskIndex, callResult, runs, crashedTask,
                    errorLogged, prdPaths, results, finalExitCode, stopped, harness >>

\* the reduce callback, lines 421-424: the batch has stopped
SkipItem ==
    /\ pc = "idle"
    /\ batchIndex < prdPaths
    /\ stopped
    /\ batchIndex' = batchIndex + 1
    /\ UNCHANGED << diskPrd, diskProgress, prd, progress, pc, after, nextTask, taskIndex,
                    templateSet, configPath, requestedSet, requestedConfig, configPaths,
                    dryRun, exitCode, callResult, inFlight,
                    runs, savePrev, crashedTask, errorLogged, prdPaths, results,
                    finalExitCode, stopped, harness >>

CollectStoppingWhenBlocked ==
    /\ pc = "return"
    /\ results' = Append(results, [ prdPath |-> batchIndex, exitCode |-> exitCode,
                                    status |-> diskProgress.status ])
    /\ IF exitCode # SUCCESS \/ diskProgress.status = "blocked"
       THEN finalExitCode' = TASK_BLOCKED /\ stopped' = TRUE
       ELSE UNCHANGED << finalExitCode, stopped >>
    /\ pc' = "idle"
    /\ forget
    /\ crashedTask' = NoStory
    /\ UNCHANGED << diskPrd, diskProgress, runs, prdPaths, batchIndex, harness >>

\* run returns; the reduce callback, lines 441-451.  status is the status of
\* the work item's progress record when its run returned.
Collect ==
    /\ pc = "return"
    /\ results' = Append(results, [ prdPath |-> batchIndex, exitCode |-> exitCode,
                                    status |-> diskProgress.status ])
    /\ IF exitCode # SUCCESS
       THEN finalExitCode' = exitCode /\ stopped' = TRUE
       ELSE UNCHANGED << finalExitCode, stopped >>
    /\ pc' = "idle"
    /\ forget
    /\ crashedTask' = NoStory
    /\ UNCHANGED << diskPrd, diskProgress, runs, prdPaths, batchIndex, harness >>

NextBatch ==
    \/ RunItem
    \/ SkipItem
    \/ Converted
    \/ Initialized
    \/ WritePrd
    \/ WriteProgress
    \/ Select
    \/ Spawn
    \/ TaskReturned
    \/ Collect

SpecBatch == InitBatch /\ [][NextBatch]_vars

---------------------------------------------------------------------------
(* The engine, the batch and the resolver harness when they are not exercised *)

engine ==
    << diskPrd, diskProgress, prd, progress, pc, after, nextTask, taskIndex,
       templateSet, configPath, requestedSet, requestedConfig, configPaths,
       dryRun, exitCode, callResult, inFlight, runs,
       savePrev, crashedTask, errorLogged, batch, fnStories, fnCompleted, fnResult >>

runAtRest ==
    /\ diskPrd = NoPrd
    /\ diskProgress = NoProgress
    /\ prd = << >>
    /\ progress = NoProgress
    /\ pc = "idle"
    /\ after = "none"
    /\ nextTask = NoStory
    /\ taskIndex = 0
    /\ templateSet = "default"
    /\ requestedSet = "default"
    /\ configPath = Null
    /\ requestedConfig = Null
    /\ dryRun = FALSE
    /\ exitCode = NoExit
    /\ callResult = NoResult
    /\ inFlight = 0
    /\ savePrev = NoSave
    /\ crashedTask = NoStory
    /\ errorLogged = << >>
    /\ prdPaths = 0
    /\ batchIndex = 0
    /\ results = << >>
    /\ finalExitCode = SUCCESS
    /\ stopped = FALSE
    /\ fnStories = << >>
    /\ fnCompleted = << >>
    /\ fnResult = NotCalled

engineAtRest == runAtRest /\ runs = 0 /\ configPaths = {Null}

---------------------------------------------------------------------------
(* The engine on a work item whose runs are started with and without --config *)

\* the number of runs explored with the --config option
MaxPinRuns == 2

InitPin ==
    /\ runAtRest
    /\ runs = MaxRuns - MaxPinRuns
    /\ configPaths = ConfigPaths
    /\ othersAtRest

SpecPin == InitPin /\ [][Next]_vars

---------------------------------------------------------------------------
(* RalphLoop.#usageStats over the runs of one process (the runs of a batch).
   The statements of run, init and executeTask that read or write
   #usageStats, in the order in which run reaches them. *)

MaxUsageRuns == 2
MaxInvocations == 2

\* the usage callClaude resolves with: null, or the counts of the result event
UsageReport(present, inputTokens) == [ present |-> present, inputTokens |-> inputTokens ]

UsageReports == { UsageReport(FALSE, 0), UsageReport(TRUE, 1), UsageReport(TRUE, 2) }

\* init, lines 837-846 and executeTask, lines 1058-1067
accumulate(stats, usage) ==
    IF usage.present
    THEN Usage(stats.totalInputTokens + usage.inputTokens, stats.taskCount + 1)
    ELSE stats

\* #resetUsageStats, lines 38-48
resetUsageStats == NoUsage

InitUsage ==
    /\ engineAtRest
    /\ usageAtRest
    /\ configAtRest
    /\ logAtRest
    /\ streamAtRest
    /\ extractAtRest
    /\ dirAtRest
    /\ reliable = FALSE

notUsage == << engine, configVars, logVars, streamVars, extractVars, dirVars, reliable >>

\* run, lines 1177-1243: checkExistingProject; an existing project that is
\* rejected or completed returns at once
UsageRunStarts ==
    /\ usagePc = "idle"
    /\ usageRuns < MaxUsageRuns
    /\ usageRuns' = usageRuns + 1
    /\ reported' = NoUsage
    /\ \E exists \in BOOLEAN, returnsAtOnce \in BOOLEAN :
        usagePc' = IF ~exists THEN "init"
                   ELSE IF returnsAtOnce THEN "end"
                   ELSE "checked"
    /\ UNCHANGED << usageStats, notUsage >>

\* run, lines 1245-1253 and init: the source is unreadable, or the conversion
\* invocation is made, its usage accumulated, and init succeeds or fails
UsageInit ==
    /\ usagePc = "init"
    /\ \E readable \in BOOLEAN, usage \in UsageReports, success \in BOOLEAN :
        IF ~readable
        THEN /\ usagePc' = "end"
             /\ UNCHANGED << usageStats, reported >>
        ELSE /\ usageStats' = accumulate(usageStats, usage)
             /\ reported' = accumulate(reported, usage)
             /\ usagePc' = IF success THEN "checked" ELSE "end"
    /\ UNCHANGED << usageRuns, notUsage >>

\* run, lines 1255-1284: the dry run returns, otherwise #resetUsageStats
UsageLoopStarts ==
    /\ usagePc = "checked"
    /\ \E dry \in BOOLEAN :
        IF dry
        THEN /\ usagePc' = "end"
             /\ UNCHANGED usageStats
        ELSE /\ usagePc' = "loop"
             /\ usageStats' = resetUsageStats
    /\ UNCHANGED << reported, usageRuns, notUsage >>

\* run, lines 1293-1389 and executeTask, lines 1058-1067: a task invocation
\* returns and its usage is accumulated; the loop goes on or stops
UsageTask ==
    /\ usagePc = "loop"
    /\ \E usage \in UsageReports, success \in BOOLEAN :
        /\ usage.present => reported.taskCount < MaxInvocations + 1
        /\ usageStats' = accumulate(usageStats, usage)
        /\ reported' = accumulate(reported, usage)
        /\ usagePc' = IF success THEN "loop" ELSE "end"
    /\ UNCHANGED << usageRuns, notUsage >>

\* run, lines 1299-1340: no next task
UsageLoopEnds ==
    /\ usagePc = "loop"
    /\ usagePc' = "end"
    /\ UNCHANGED << usageStats, reported, usageRuns, notUsage >>

\* run, lines 1391-1423: the final summary, and run returns to its caller
UsageRunReturns ==
    /\ usagePc = "end"
    /\ usagePc' = "idle"
    /\ UNCHANGED << usageStats, reported, usageRuns, notUsage >>

NextUsage ==
    \/ UsageRunStarts
    \/ UsageInit
    \/ UsageLoopStarts
    \/ UsageTask
    \/ UsageLoopEnds
    \/ UsageRunReturns

SpecUsage == InitUsage /\ [][NextUsage]_vars

---------------------------------------------------------------------------
(* UserConfig: set configuration documents, their migration and validation *)

MaxList == 2

\* A JSON value of a set document.  type is the JavaScript kind of the value;
\* tool, skipContext and options are the keys of a tool-config object
\* ("undefined" when the key is absent); items are the elements of an array.
JsValue(type, tool, skipContext, options, items) ==
    [ type |-> type, tool |-> tool, skipContext |-> skipContext, options |-> options,
      items |-> items ]

JsUndefined == JsValue("undefined", "undefined", "undefined", "undefined", << >>)
JsNull == JsValue("null", "undefined", "undefined", "undefined", << >>)
JsString == JsValue("string", "undefined", "undefined", "undefined", << >>)
JsObject(tool, skipContext, options) == JsValue("object", tool, skipContext, options, << >>)
JsArray(items) == JsValue("array", "undefined", "undefined", "undefined", items)

\* #migrateSetConfig, lines 1889-1909: the entries written by the migration
DefaultConversionEntry == JsObject("claude", "undefined", "default")
DefaultTaskEntry(skipTaskContext) == JsObject("claude", skipTaskContext, "default")

\* tool-config objects: with the default options, an unknown option, a
\* skipContext that is a boolean ("true") or a string ("yes"), an
\* unregistered tool, no tool key
ToolConfigs ==
    { DefaultConversionEntry,
      JsObject("claude", "true", "default"),
      JsObject("claude", "yes", "default"),
      JsObject("claude", "undefined", "unknown"),
      JsObject("other", "undefined", "default"),
      JsObject("undefined", "undefined", "default") }

Elements == ToolConfigs \cup {JsNull, JsString}

ListsOf(elements) ==
    { JsArray(items) : items \in UNION { [1..n -> elements] : n \in 0..MaxList } }

PhaseValues == {JsUndefined, JsNull, JsString} \cup ToolConfigs \cup ListsOf(Elements)

\* options.skipTaskContext: absent, a boolean, a string
SkipFlags == {"undefined", "true", "yes"}

SetDocument(name, version, conversion, task, skipTaskContext) ==
    [ name |-> name, version |-> version, conversion |-> conversion, task |-> task,
      skipTaskContext |-> skipTaskContext ]

SetDocuments ==
    { SetDocument(n, v, c, t, f) :
        n \in {JsUndefined, JsString}, v \in {JsUndefined, JsString},
        c \in PhaseValues, t \in PhaseValues, f \in SkipFlags }

NoDocument == SetDocument(JsUndefined, JsUndefined, JsUndefined, JsUndefined, "undefined")

\* a validation message: its text, the key or phase it names, the index it names
Message(msg, at, index) == [ text |-> msg, at |-> at, index |-> index ]

Validation(valid, messages) == [ valid |-> valid, messages |-> messages ]

\* ClaudeTool.validate
ClaudeToolValidate(config) ==
    IF config.tool # "claude"
    THEN Validation(FALSE, << "ClaudeTool.validate: Expected tool claude" >>)
    ELSE IF config.options = "undefined" THEN Validation(TRUE, << >>)
    ELSE IF config.options = "unknown"
    THEN Validation(FALSE, << "config.options: Unknown option" >>)
    ELSE Validation(TRUE, << >>)

\* ClaudeTool.validateSkipContext
validateSkipContext(config) ==
    IF config.skipContext = "undefined" THEN Validation(TRUE, << >>)
    ELSE IF config.skipContext # "true"
    THEN Validation(FALSE, << "config.skipContext: Must be type boolean" >>)
    ELSE Validation(TRUE, << >>)

\* ToolRegistry.validateToolConfig
validateToolConfig(config) ==
    IF config.tool = "undefined"
    THEN Validation(FALSE, << "config.tool: Missing required field" >>)
    ELSE IF config.tool # "claude"
    THEN Validation(FALSE, << "config.tool: Unknown tool" >>)
    ELSE ClaudeToolValidate(config)

\* `phase[index].msg` for each message
Prefixed(messages, arrayName, index) ==
    [ k \in 1..Len(messages) |-> Message(messages[k], arrayName, index) ]

\* #validateConfigArray, lines 1792-1804: the forEach from element i on
RECURSIVE elementMessages(_, _, _)
elementMessages(array, arrayName, i) ==
    IF i > Len(array) THEN << >>
    ELSE ( IF array[i].type # "object"
           THEN << Message("Must be an object", arrayName, i - 1) >>
           ELSE IF array[i].tool = "undefined"
           THEN << Message("Missing required key tool", arrayName, i - 1) >>
           ELSE << >> )
         \o elementMessages(array, arrayName, i + 1)

validateConfigArrayAcceptingEmpty(array, arrayName) ==
    IF array.type # "array"
    THEN Validation(FALSE, << Message("Must be an array", arrayName, -1) >>)
    ELSE Validation(elementMessages(array.items, arrayName, 1) = << >>,
                    elementMessages(array.items, arrayName, 1))

\* #validateConfigArray
validateConfigArray(array, arrayName) ==
    IF array.type # "array"
    THEN Validation(FALSE, << Message("Must be an array", arrayName, -1) >>)
    ELSE IF Len(array.items) = 0
    THEN Validation(FALSE,
                    << Message("Array must contain at least one tool config", arrayName, -1) >>)
    ELSE Validation(elementMessages(array.items, arrayName, 1) = << >>,
                    elementMessages(array.items, arrayName, 1))

\* #validateToolConfigs, lines 1817-1875: one forEach from element i on
RECURSIVE toolMessages(_, _, _)
toolMessages(array, arrayName, i) ==
    IF i > Len(array) THEN << >>
    ELSE Prefixed(validateToolConfig(array[i]).messages, arrayName, i - 1)
         \o ( IF arrayName = "task" /\ array[i].tool = "claude"
              THEN Prefixed(validateSkipContext(array[i]).messages, arrayName, i - 1)
              ELSE << >> )
         \o toolMessages(array, arrayName, i + 1)

\* #validateToolConfigs
validateToolConfigs(doc) ==
    toolMessages(doc.conversion.items, "conversion", 1)
    \o toolMessages(doc.task.items, "task", 1)

requiredKeys == << "name", "version", "conversion", "task" >>

\* validateSetConfig, lines 1737-1744
missingKeyMessages(doc) ==
    LET missing == SelectSeq(requiredKeys, LAMBDA key : doc[key].type = "undefined") IN
    [ k \in 1..Len(missing) |-> Message("Missing required key", missing[k], -1) ]

\* validateSetConfig, lines 1750-1772
validateLists(doc) ==
    LET conversion == validateConfigArray(doc.conversion, "conversion")
        task == validateConfigArray(doc.task, "task")
    IN  IF ~conversion.valid \/ ~task.valid
        THEN Validation(FALSE, conversion.messages \o task.messages)
        ELSE Validation(validateToolConfigs(doc) = << >>,
                        conversion.messages \o task.messages \o validateToolConfigs(doc))

validateSetConfigWithoutShortCircuit(doc) ==
    Validation(FALSE, missingKeyMessages(doc) \o
                      validateConfigArray(doc.conversion, "conversion").messages \o
                      validateConfigArray(doc.task, "task").messages)

\* validateSetConfig
validateSetConfig(doc) ==
    IF missingKeyMessages(doc) # << >>
    THEN Validation(FALSE, missingKeyMessages(doc))
    ELSE validateLists(doc)

Migration(doc, migrated) == [ setConfig |-> doc, migrated |-> migrated ]

\* JavaScript truthiness of the values of the model (the string is not empty)
truthy(value) == value.type \notin {"undefined", "null"}

\* #migrateSetConfig, lines 1912-1920: Migration 2
wrap(value) == IF truthy(value) /\ value.type # "array" THEN JsArray(<< value >>) ELSE value

migrateSetConfigWrappingFirst(doc) ==
    IF wrap(doc.conversion) # doc.conversion \/ wrap(doc.task) # doc.task
    THEN Migration([ doc EXCEPT !.conversion = wrap(@), !.task = wrap(@) ], TRUE)
    ELSE IF doc.skipTaskContext # "undefined" /\ ~truthy(doc.task)
    THEN Migration([ doc EXCEPT !.conversion = JsArray(<< DefaultConversionEntry >>),
                                !.task = JsArray(<< DefaultTaskEntry(doc.skipTaskContext) >>) ],
                   TRUE)
    ELSE Migration(doc, FALSE)

\* #migrateSetConfig
migrateSetConfig(doc) ==
    IF doc.skipTaskContext # "undefined" /\ ~truthy(doc.task)
    THEN Migration([ doc EXCEPT !.conversion = JsArray(<< DefaultConversionEntry >>),
                                !.task = JsArray(<< DefaultTaskEntry(doc.skipTaskContext) >>) ],
                   TRUE)
    ELSE Migration([ doc EXCEPT !.conversion = wrap(@), !.task = wrap(@) ],
                   wrap(doc.conversion) # doc.conversion \/ wrap(doc.task) # doc.task)

\* the Error loadSetConfig throws: its first line, the first line of the
\* error it wraps, the validation messages that error lists, and whether the
\* text holds the expected structure
ConfigError(msg, cause, errors, expectedStructure) ==
    [ text |-> msg, cause |-> cause, errors |-> errors,
      expectedStructure |-> expectedStructure ]

NoError == ConfigError(Null, Null, << >>, FALSE)

\* what a call of UserConfig returned or threw
ConfigResult(call, validation, thrown, doc, advisory, error, config) ==
    [ call |-> call, valid |-> validation.valid, messages |-> validation.messages,
      thrown |-> thrown, setConfig |-> doc, advisory |-> advisory, error |-> error,
      config |-> config ]

\* loadSetConfig, lines 1693-1729
loadSetConfig(readable, doc) ==
    IF ~readable
    THEN ConfigResult("loadSetConfig", Validation(FALSE, << >>), TRUE, NoDocument, FALSE,
                      ConfigError("Set config not found or invalid", "ENOENT", << >>, TRUE),
                      JsNull)
    ELSE LET migration == migrateSetConfig(doc)
             validation == validateSetConfig(migration.setConfig)
         IN  IF ~validation.valid
             THEN ConfigResult("loadSetConfig", validation, TRUE, NoDocument,
                               migration.migrated,
                               ConfigError("Set config not found or invalid",
                                           "Set config validation failed",
                                           validation.messages, TRUE),
                               JsNull)
             ELSE ConfigResult("loadSetConfig", validation, FALSE, migration.setConfig,
                               migration.migrated, NoError, JsNull)

configIdle == toolName = Null /\ phase = Null /\ configResult = NotCalled

notConfig == << engine, usageVars, logVars, streamVars, extractVars, dirVars, reliable >>

InitConfig ==
    /\ engineAtRest
    /\ usageAtRest
    /\ logAtRest
    /\ streamAtRest
    /\ extractAtRest
    /\ dirAtRest
    /\ reliable = FALSE
    /\ setConfig \in SetDocuments
    /\ configIdle

CallValidateSetConfig ==
    /\ configResult = NotCalled
    /\ configResult' = ConfigResult("validateSetConfig", validateSetConfig(setConfig), FALSE,
                                    setConfig, FALSE, NoError, JsNull)
    /\ UNCHANGED << setConfig, toolName, phase, notConfig >>

CallMigrateSetConfig ==
    /\ configResult = NotCalled
    /\ configResult' = ConfigResult("migrateSetConfig", Validation(TRUE, << >>), FALSE,
                                    migrateSetConfig(setConfig).setConfig,
                                    migrateSetConfig(setConfig).migrated, NoError, JsNull)
    /\ UNCHANGED << setConfig, toolName, phase, notConfig >>

CallLoadSetConfig ==
    /\ configResult = NotCalled
    /\ \E readable \in BOOLEAN : configResult' = loadSetConfig(readable, setConfig)
    /\ UNCHANGED << setConfig, toolName, phase, notConfig >>

NextConfig ==
    \/ CallValidateSetConfig
    \/ CallMigrateSetConfig
    \/ CallLoadSetConfig

SpecConfig == InitConfig /\ [][NextConfig]_vars

---------------------------------------------------------------------------
(* UserConfig.getToolConfig on set documents whose phases are lists of tool configs *)

ToolNames == {Null, "claude", "other", "codex"}

Phases == {"conversion", "task"}

\* setConfig[ phase ] || []
phaseConfigs(doc, phaseName) ==
    IF truthy(doc[phaseName]) THEN doc[phaseName].items ELSE << >>

\* phaseConfigs.find( c => c.tool === toolName ), from element i on
RECURSIVE findConfig(_, _, _)
findConfig(configs, name, i) ==
    IF i > Len(configs) THEN JsNull
    ELSE IF configs[i].tool = name THEN configs[i]
    ELSE findConfig(configs, name, i + 1)

getToolConfigLast(doc, phaseName, name) ==
    LET configs == phaseConfigs(doc, phaseName) IN
    IF Len(configs) = 0 THEN JsNull
    ELSE IF name = Null THEN configs[Len(configs)]
    ELSE findConfig(configs, name, Len(configs))

\* getToolConfig
getToolConfig(doc, phaseName, name) ==
    LET configs == phaseConfigs(doc, phaseName) IN
    IF name = Null
    THEN IF Len(configs) > 0 THEN configs[1] ELSE JsNull
    ELSE findConfig(configs, name, 1)

InitTool ==
    /\ engineAtRest
    /\ usageAtRest
    /\ logAtRest
    /\ streamAtRest
    /\ extractAtRest
    /\ dirAtRest
    /\ reliable = FALSE
    /\ setConfig \in
        { SetDocument(JsString, JsString, c, t, "undefined") :
            c \in {JsUndefined} \cup ListsOf(ToolConfigs),
            t \in {JsUndefined} \cup ListsOf(ToolConfigs) }
    /\ toolName \in ToolNames
    /\ phase \in Phases
    /\ configResult = NotCalled

CallGetToolConfig ==
    /\ configResult = NotCalled
    /\ configResult' = ConfigResult("getToolConfig", Validation(TRUE, << >>), FALSE,
                                    setConfig, FALSE, NoError,
                                    getToolConfig(setConfig, phase, toolName))
    /\ UNCHANGED << setConfig, toolName, phase, notConfig >>

NextTool == CallGetToolConfig

SpecTool == InitTool /\ [][NextTool]_vars

---------------------------------------------------------------------------
(* saveTaskLog and saveError: writers of one log file.  Each writer is a
   process running the engine on the same state directory; a step is one
   awaited file operation.  logFile is the list of records the file holds;
   logDamaged says that the file does not parse as it is: a writer was
   killed while writeFile was rewriting it. *)

MaxWriters == 2
MaxEntries == 3

\* the entry a writer builds for its n-th call (lines 250-255, 274-284)
LogEntry(writer, n) == [ writer |-> writer, n |-> n ]

\* the calls a writer has completed
Completed(writer) == Len(SelectSeq(written, LAMBDA e : e.writer = writer))

rewriteWithEntryOnly(logs, entry) == << entry >>

\* lines 265-266 and 294-295: existingLogs.push( logEntry ), writeFile
rewriteWithEntry(logs, entry) == Append(logs, entry)

notLog == << engine, usageVars, configVars, streamVars, extractVars, dirVars, reliable >>

InitLog ==
    /\ engineAtRest
    /\ usageAtRest
    /\ configAtRest
    /\ streamAtRest
    /\ extractAtRest
    /\ dirAtRest
    /\ reliable = FALSE
    /\ writers \in 1..MaxWriters
    /\ logFile = << >>
    /\ logDamaged = FALSE
    /\ writerPc = [ w \in 1..writers |-> "idle" ]
    /\ existingLogs = [ w \in 1..writers |-> << >> ]
    /\ written = << >>

readLogUnguarded(file, damaged) == file

\* lines 257-263 and 286-292: readFile and JSON.parse in a try block whose
\* catch leaves the empty list (a missing file is the empty list too)
readLog(file, damaged) == IF damaged THEN << >> ELSE file

\* lines 257-263 and 286-292: the file is read
ReadLog(w) ==
    /\ writerPc[w] = "idle"
    /\ Completed(w) < MaxEntries
    /\ existingLogs' = [ existingLogs EXCEPT ![w] = readLog(logFile, logDamaged) ]
    /\ writerPc' = [ writerPc EXCEPT ![w] = "read" ]
    /\ UNCHANGED << logFile, logDamaged, written, writers, notLog >>

\* lines 265-266 and 294-295: the list with the new entry is written
WriteLog(w) ==
    /\ writerPc[w] = "read"
    /\ logFile' = rewriteWithEntry(existingLogs[w], LogEntry(w, Completed(w) + 1))
    /\ logDamaged' = FALSE
    /\ written' = Append(written, LogEntry(w, Completed(w) + 1))
    /\ existingLogs' = [ existingLogs EXCEPT ![w] = << >> ]
    /\ writerPc' = [ writerPc EXCEPT ![w] = "idle" ]
    /\ UNCHANGED << writers, notLog >>

NextLog ==
    \/ \E w \in 1..writers : ReadLog(w)
    \/ \E w \in 1..writers : WriteLog(w)

SpecLog == InitLog /\ [][NextLog]_vars

\* The writer's process is killed while fs.writeFile (lines 266, 295) has
\* written part of the new content: the call does not return and the file
\* is left cut short.  The writer of the next process takes its place.
KillInWriteLog(w) ==
    /\ writerPc[w] = "read"
    /\ logDamaged' = TRUE
    /\ existingLogs' = [ existingLogs EXCEPT ![w] = << >> ]
    /\ writerPc' = [ writerPc EXCEPT ![w] = "idle" ]
    /\ UNCHANGED << logFile, written, writers, notLog >>

NextLogFault ==
    \/ \E w \in 1..writers : ReadLog(w)
    \/ \E w \in 1..writers : WriteLog(w)
    \/ \E w \in 1..writers : KillInWriteLog(w)

SpecLogFault == InitLog /\ [][NextLogFault]_vars

---------------------------------------------------------------------------
(* callClaude's stdout handler: the agent's output arrives as chunks of
   bytes, each chunk is decoded on its own (data.toString()) and passed to
   parseStreamChunk with the carried buffer.  Bytes: "1" a digit, "q" a
   double quote, " " a space, "\n" a newline, "L" "C" the two bytes of a
   two-byte UTF-8 character.  Characters: the same, with "e2" the two-byte
   character and "?" U+FFFD. *)

MaxStream == 5

Bytes == {"1", "q", " ", "\n", "L", "C"}

\* the agent writes well-formed UTF-8
WellFormed(bytes) ==
    \A i \in 1..Len(bytes) :
        /\ bytes[i] = "L" => (i < Len(bytes) /\ bytes[i + 1] = "C")
        /\ bytes[i] = "C" => (i > 1 /\ bytes[i - 1] = "L")

Streams ==
    { st \in UNION { [1..n -> Bytes] : n \in 1..MaxStream } : WellFormed(st) }

\* the chunks of a stream cut after the positions in cuts
RECURSIVE chunksFrom(_, _, _, _)
chunksFrom(st, cuts, start, i) ==
    IF i = Len(st) THEN << SubSeq(st, start, i) >>
    ELSE IF i \in cuts
    THEN << SubSeq(st, start, i) >> \o chunksFrom(st, cuts, i + 1, i + 1)
    ELSE chunksFrom(st, cuts, start, i + 1)

\* Buffer.prototype.toString(): UTF-8 decoding, U+FFFD for a byte that is
\* not part of a complete character
RECURSIVE decodeFrom(_, _)
decodeFrom(bytes, i) ==
    IF i > Len(bytes) THEN << >>
    ELSE IF bytes[i] = "L" /\ i < Len(bytes) /\ bytes[i + 1] = "C"
    THEN << "e2" >> \o decodeFrom(bytes, i + 2)
    ELSE IF bytes[i] \in {"L", "C"}
    THEN << "?" >> \o decodeFrom(bytes, i + 1)
    ELSE << bytes[i] >> \o decodeFrom(bytes, i + 1)

toString(bytes) == decodeFrom(bytes, 1)

\* String.prototype.split( '\n' )
RECURSIVE splitFrom(_, _, _)
splitFrom(str, start, i) ==
    IF i > Len(str) THEN << SubSeq(str, start, Len(str)) >>
    ELSE IF str[i] = "\n"
    THEN << SubSeq(str, start, i - 1) >> \o splitFrom(str, i + 1, i + 1)
    ELSE splitFrom(str, start, i + 1)

split(str) == splitFrom(str, 1, 1)

\* String.prototype.trim()
RECURSIVE trim(_)
trim(str) ==
    IF str = << >> THEN str
    ELSE IF str[1] = " " THEN trim(Tail(str))
    ELSE IF str[Len(str)] = " " THEN trim(SubSeq(str, 1, Len(str) - 1))
    ELSE str

\* JSON.parse succeeds: the line holds a number or a string
parses(line) ==
    LET t == trim(line) IN
    \/ t # << >> /\ \A i \in 1..Len(t) : t[i] = "1"
    \/ /\ Len(t) >= 2
       /\ t[1] = "q"
       /\ t[Len(t)] = "q"
       /\ \A i \in 2..(Len(t) - 1) : t[i] # "q"

\* parseStreamChunk, lines 2154-2166: the events of the lines from line i on;
\* an event is the value JSON.parse returns, written as its JSON text
RECURSIVE lineEvents(_, _)
lineEvents(lines, i) ==
    IF i > Len(lines) THEN << >>
    ELSE ( IF trim(lines[i]) = << >> THEN << >>
           ELSE IF parses(lines[i]) THEN << trim(lines[i]) >>
           ELSE << >> )
         \o lineEvents(lines, i + 1)

\* parseStreamChunk
parseStreamChunk(chunk, buffer) ==
    LET newBuffer == buffer \o chunk
        lines == split(newBuffer)
        completeLines == SubSeq(lines, 1, Len(lines) - 1)
        remainingBuffer == lines[Len(lines)]
    IN  [ events |-> lineEvents(completeLines, 1), buffer |-> remainingBuffer ]

notStream == << engine, usageVars, configVars, logVars, extractVars, dirVars, reliable >>

InitStream ==
    /\ engineAtRest
    /\ usageAtRest
    /\ configAtRest
    /\ logAtRest
    /\ extractAtRest
    /\ dirAtRest
    /\ reliable = FALSE
    /\ chunks \in { chunksFrom(st, cuts, 1, 1) :
                      st \in Streams, cuts \in SUBSET (1..(MaxStream - 1)) }
    /\ fedChunks = 0
    /\ streamBuffer = << >>
    /\ events = << >>
    /\ resolved = NotCalled

\* callClaude, lines 372-380: a 'data' event of child.stdout
StdoutData ==
    /\ fedChunks < Len(chunks)
    /\ resolved = NotCalled
    /\ LET parsed == parseStreamChunk(toString(chunks[fedChunks + 1]), streamBuffer) IN
        /\ events' = events \o parsed.events
        /\ streamBuffer' = parsed.buffer
    /\ fedChunks' = fedChunks + 1
    /\ UNCHANGED << chunks, resolved, notStream >>

\* callClaude, line 406: event.type === 'result'.  The events of the model
\* are JSON numbers and strings; a string stands for a result event, which
\* carries structured_output and usage, a number for any other event.
isResult(event) == event[1] = "q"

\* callClaude, lines 406-434: structuredOutput and taskUsage are those of the
\* last result event handled, null when there was none
Resolution(handled) ==
    LET resultEvents == SelectSeq(handled, isResult)
        last == IF resultEvents = << >> THEN Null
                ELSE resultEvents[Len(resultEvents)]
    IN  [ usage |-> last, structuredOutput |-> last ]

StreamCloseFlushing ==
    /\ fedChunks = Len(chunks)
    /\ resolved = NotCalled
    /\ resolved' = Resolution(events \o lineEvents(<< streamBuffer >>, 1))
    /\ UNCHANGED << chunks, fedChunks, streamBuffer, events, notStream >>

\* callClaude, lines 449-466: the child has closed, after the last 'data'
\* event of its stdout; the promise resolves with what the handled events set
StreamClose ==
    /\ fedChunks = Len(chunks)
    /\ resolved = NotCalled
    /\ resolved' = Resolution(events)
    /\ UNCHANGED << chunks, fedChunks, streamBuffer, events, notStream >>

NextStream ==
    \/ StdoutData
    \/ StreamClose

SpecStream == InitStream /\ [][NextStream]_vars

---------------------------------------------------------------------------
(* extractJson on the raw output of the agent.  The raw output is its list of
   lines.  A message text is a sequence of tokens: "O1" and "O2" two JSON
   objects, "w" prose, "F" a code fence.  In the raw text of a line an event
   is the JSON object "E". *)

MaxLines == 3
MaxText == 3

Tokens == {"O1", "O2", "w", "F"}

\* the texts of up to MaxText tokens; the longest ones are a text wrapped in
\* prose or in a code block
Texts ==
    { t \in UNION { [1..n -> Tokens] : n \in 1..MaxText } :
        Len(t) = MaxText => (t[1] = t[MaxText] /\ t[1] \in {"w", "F"}) }

\* a line of output: an assistant event with the text of its first text item
\* (empty: no such item), another event, a line that is no JSON, plain text
Line(kind, content) == [ kind |-> kind, text |-> content ]

EventLines ==
    { Line("assistant", t) : t \in Texts \cup {<< >>} } \cup { Line("event", << >>) }

Lines == EventLines \cup { Line("invalid", << >>) }

RawOutputs ==
    { << first >> \o rest :
        first \in EventLines, rest \in UNION { [1..n -> Lines] : n \in 1..(MaxLines - 1) } }
    \cup { << Line("plain", t) >> : t \in Texts }

\* line 488: lines[ 0 ] starts with the type key of an event
startsWithType(line) == line.kind \in {"assistant", "event"}

\* lines 487-488
isStreamJson(lines) == Len(lines) > 1 /\ startsWithType(lines[1])

\* lines 494-510: the texts pushed for the lines from line i on
RECURSIVE assistantTexts(_, _)
assistantTexts(lines, i) ==
    IF i > Len(lines) THEN << >>
    ELSE ( IF lines[i].kind = "assistant" /\ lines[i].text # << >>
           THEN << lines[i].text >> ELSE << >> )
         \o assistantTexts(lines, i + 1)

\* the raw text: an event line is a JSON object (the text inside it is
\* taken to hold no fence), an invalid line is prose
RECURSIVE rawText(_, _)
rawText(lines, i) ==
    IF i > Len(lines) THEN << >>
    ELSE ( IF lines[i].kind = "plain" THEN lines[i].text
           ELSE IF lines[i].kind = "invalid" THEN << "w" >>
           ELSE << "E" >> )
         \o rawText(lines, i + 1)

candidateTextFirst(texts) == texts[1]

\* line 514: assistantTexts[ assistantTexts.length - 1 ]
candidateText(texts) == texts[Len(texts)]

\* lines 484-516
contentText(lines) ==
    IF isStreamJson(lines) /\ assistantTexts(lines, 1) # << >>
    THEN candidateText(assistantTexts(lines, 1))
    ELSE rawText(lines, 1)

Positions(str, tokens) == { i \in 1..Len(str) : str[i] \in tokens }

Min(set) == CHOOSE i \in set : \A j \in set : i <= j
Max(set) == CHOOSE i \in set : \A j \in set : i >= j

\* lines 521-525: the code block pattern, which captures the text between
\* the first fence and the next one
fenced(str) ==
    LET fences == Positions(str, {"F"}) IN
    IF Cardinality(fences) >= 2
    THEN SubSeq(str, Min(fences) + 1, Min(fences \ {Min(fences)}) - 1)
    ELSE str

JsonObjects == {"O1", "O2", "E"}

\* lines 527-531: the object pattern, which captures from the first opening
\* brace to the last closing brace
objectMatch(str) ==
    LET objects == Positions(str, JsonObjects) IN
    IF objects # {} THEN SubSeq(str, Min(objects), Max(objects)) ELSE str

Extracted(json, error) == [ called |-> TRUE, json |-> json, error |-> error ]

\* lines 533-539: JSON.parse( jsonStr.trim() )
parse(jsonStr) ==
    IF Len(jsonStr) = 1 /\ jsonStr[1] \in JsonObjects
    THEN Extracted(jsonStr[1], FALSE)
    ELSE Extracted(Null, TRUE)

\* extractJson
extractJson(lines) == parse(objectMatch(fenced(contentText(lines))))

notExtract == << engine, usageVars, configVars, logVars, streamVars, dirVars, reliable >>

InitExtract ==
    /\ engineAtRest
    /\ usageAtRest
    /\ configAtRest
    /\ logAtRest
    /\ streamAtRest
    /\ dirAtRest
    /\ reliable = FALSE
    /\ text \in RawOutputs
    /\ extracted = NotCalled

CallExtractJson ==
    /\ extracted = NotCalled
    /\ extracted' = extractJson(text)
    /\ UNCHANGED << text, notExtract >>

NextExtract == CallExtractJson

SpecExtract == InitExtract /\ [][NextExtract]_vars

---------------------------------------------------------------------------
(* The state directory of a source file, and what a run finds in it.  A
   source path is the absolute path run resolves: a directory and a file
   name, the name a string over "a", "b" and ".".  A state directory holds
   the work item that init converted from a source file; the content of the
   work item is represented by the path of that source file. *)

MaxDirRuns == 2
MaxName == 3

Directories == {"d1", "d2"}

NameChars == {"a", "b", "."}

\* file names: every string but "." and ".."
FileNames ==
    UNION { [1..n -> NameChars] : n \in 1..MaxName } \ { <<".">>, <<".", ".">> }

\* path.join( dir, name )
pathJoin(dir, name) == [ dir |-> dir, name |-> name ]

SourcePaths == { pathJoin(d, n) : d \in Directories, n \in FileNames }

\* path.basename and path.dirname of an absolute path of a file
basename(prdPath) == prdPath.name
dirname(prdPath) == prdPath.dir

\* the text of str up to its last "." (all of it when it has none)
RECURSIVE beforeLastDot(_, _)
beforeLastDot(str, i) ==
    IF i = 0 THEN str
    ELSE IF str[i] = "." THEN SubSeq(str, 1, i - 1)
    ELSE beforeLastDot(str, i - 1)

extractProjectNameLastDot(prdPath) == beforeLastDot(basename(prdPath), Len(basename(prdPath)))

\* String.prototype.split( '.' )[ 0 ]
RECURSIVE firstField(_, _)
firstField(str, i) ==
    IF i > Len(str) THEN str
    ELSE IF str[i] = "." THEN SubSeq(str, 1, i - 1)
    ELSE firstField(str, i + 1)

\* extractProjectName
extractProjectName(prdPath) == firstField(basename(prdPath), 1)

\* getRalphDir
getRalphDir(prdPath) == pathJoin(dirname(prdPath), extractProjectName(prdPath))

\* a state directory with the documents init saved for a source file
StateDir(ralphDir, source) == [ ralphDir |-> ralphDir, source |-> source ]

\* what a run did: resumed the work item it found, converted its source, or
\* failed to convert it; workItem is the source of the work item it holds
RunRecord(prdPath, ralphDir, outcome, workItem) ==
    [ prdPath |-> prdPath, ralphDir |-> ralphDir, outcome |-> outcome,
      workItem |-> workItem ]

\* checkExistingProject, lines 209-232: the state directories at the path
checkExistingProject(prdPath) ==
    { e \in stateDirs : e.ralphDir = getRalphDir(prdPath) }

notDir == << engine, usageVars, configVars, logVars, streamVars, extractVars, reliable >>

InitDir ==
    /\ engineAtRest
    /\ usageAtRest
    /\ configAtRest
    /\ logAtRest
    /\ streamAtRest
    /\ extractAtRest
    /\ reliable = FALSE
    /\ stateDirs = {}
    /\ lastRun = NotCalled
    /\ dirRuns = 0

\* run, lines 1198-1253, and init with its saveState: a run on a source path
DirRun ==
    /\ dirRuns < MaxDirRuns
    /\ dirRuns' = dirRuns + 1
    /\ \E prdPath \in SourcePaths, converts \in BOOLEAN :
        LET found == checkExistingProject(prdPath) IN
        IF found # {}
        THEN /\ lastRun' = RunRecord(prdPath, getRalphDir(prdPath), "resumed",
                                     (CHOOSE e \in found : TRUE).source)
             /\ UNCHANGED stateDirs
        ELSE IF converts
        THEN /\ stateDirs' = stateDirs \cup { StateDir(getRalphDir(prdPath), prdPath) }
             /\ lastRun' = RunRecord(prdPath, getRalphDir(prdPath), "converted", prdPath)
        ELSE /\ lastRun' = RunRecord(prdPath, getRalphDir(prdPath), "failed", Null)
             /\ UNCHANGED stateDirs
    /\ UNCHANGED notDir

NextDir == DirRun

SpecDir == InitDir /\ [][NextDir]_vars

---------------------------------------------------------------------------
(* The engine with an agent that becomes reliable: from some moment between
   two runs on, the process is not killed and every task invocation returns
   a passing outcome for the task it was given.  Until then the runs are as
   in Spec, without kills during a write. *)

MaxLiveRuns == 2

InitLive ==
    /\ runAtRest
    /\ runs = MaxRuns - MaxLiveRuns
    /\ configPaths = {Null}
    /\ othersAtRest

\* the outcome callClaude resolved with is a passing one for nextTask
PassingOutcome ==
    /\ ~callResult'.contextManagement
    /\ executeTask(callResult').success
    /\ executeTask(callResult').updatedTask.id = nextTask.id

BecomesReliable ==
    /\ pc = "idle"
    /\ ~reliable
    /\ reliable' = TRUE
    /\ UNCHANGED << engine, usageVars, configVars, logVars, streamVars, extractVars, dirVars >>

\* the steps of a run between its awaits
RunStep ==
    \/ Converted
    \/ Initialized
    \/ WritePrd
    \/ WriteProgress
    \/ Select
    \/ Spawn
    \/ (TaskReturned /\ (reliable => PassingOutcome))
    \/ Return

NextLive ==
    \/ Resume
    \/ Convert
    \/ RunStep
    \/ (~reliable /\ Crash)
    \/ BecomesReliable

\* a run that is not killed goes on, and the agent returns
SpecLive == InitLive /\ [][NextLive]_vars /\ WF_vars(reliable /\ RunStep)

---------------------------------------------------------------------------
(* Properties *)

ExampleStories ==
    << Pending("A", << >>), Pending("B", <<"A">>), Pending("C", <<"A">>) >>

Eligible(stories, completedIds, i) ==
    /\ stories[i].id \notin Range(completedIds)
    /\ stories[i].status \notin {"completed", "failed"}
    /\ Range(stories[i].dependencies) \subseteq Range(completedIds)

\* C1: findNextTask returns the first story in declaration order that is not
\* completed, whose status is neither completed nor failed and whose
\* dependencies are all completed, and null when there is none; for
\* A, B(deps A), C(deps A) it returns A, and B once A is completed.
C1_FirstEligible ==
    fnResult.called =>
        LET r == fnResult.value IN
        /\ r \in 0..Len(fnStories)
        /\ r = 0 => \A i \in 1..Len(fnStories) : ~Eligible(fnStories, fnCompleted, i)
        /\ r > 0 => /\ Eligible(fnStories, fnCompleted, r)
                    /\ \A j \in 1..(r - 1) : ~Eligible(fnStories, fnCompleted, j)
        /\ (fnStories = ExampleStories /\ fnCompleted = << >>) => r = 1
        /\ (fnStories = ExampleStories /\ fnCompleted = <<"A">>) => r = 2

C1_Witness ==
    /\ fnResult.called
    /\ fnStories = ExampleStories
    /\ fnCompleted = <<"A">>
    /\ fnResult.value = 2

\* the stories of the persisted work item have these ids
StoryIdsOf(stories) == { stories[i].id : i \in 1..Len(stories) }

NoDuplicates(seq) == \A i, j \in 1..Len(seq) : seq[i] = seq[j] => i = j

\* a task has been selected and its execution is being started or is running
Started == pc \in {"call", "exec"} \/ (pc \in {"save_prd", "save_progress"} /\ after = "call")

\* C2: a subtask whose execution is started is recorded as currentTask, is
\* not in completedTasks and has all its dependencies in completedTasks.
C2_StartedTaskIsEligible ==
    Started =>
        /\ progress.currentTask = nextTask.id
        /\ nextTask.id \notin Range(progress.completedTasks)
        /\ Range(nextTask.dependencies) \subseteq Range(progress.completedTasks)

C2_Witness ==
    /\ pc = "exec"
    /\ nextTask.dependencies # << >>
    /\ progress.completedTasks # << >>

\* C3: in every persisted state completedTasks has no duplicates and holds
\* only ids of subtasks of the persisted work item, whatever the agent returns.
C3_CompletedTasksAreStoryIds ==
    (diskPrd.kind = "valid" /\ diskProgress.kind = "valid") =>
        /\ NoDuplicates(diskProgress.completedTasks)
        /\ Range(diskProgress.completedTasks) \subseteq StoryIdsOf(diskPrd.userStories)

\* every subtask is terminal in the sense of the specification
AllTerminal(stories, completedIds) ==
    \A i \in 1..Len(stories) :
        stories[i].status \in {"completed", "failed"} \/ stories[i].id \in Range(completedIds)

\* every subtask has status completed or is in completedTasks
AllCompleted(stories, completedIds) ==
    \A i \in 1..Len(stories) :
        stories[i].status = "completed" \/ stories[i].id \in Range(completedIds)

\* the loop finds no next task and sets the final status
NoneEligibleStep ==
    /\ pc = "loop"
    /\ findNextTask(prd, progress.completedTasks) = 0
    /\ pc' = "save_prd"

\* the saveState of the final status resolves
FinalSaveStep == pc = "save_progress" /\ after = "return" /\ pc' = "return"

\* C4 as claimed: with no eligible subtask the status becomes completed when
\* every subtask is terminal (completed, failed or in completedTasks), and
\* blocked otherwise, and it is persisted.
C4_Original ==
    [][ /\ NoneEligibleStep =>
            progress'.status = IF AllTerminal(prd, progress.completedTasks)
                               THEN "completed" ELSE "blocked"
        /\ FinalSaveStep => diskProgress' = progress ]_vars

\* C4 amended: with no eligible subtask the status becomes completed when
\* every subtask has status completed or is in completedTasks, and blocked
\* otherwise (also when the only remaining subtasks have status failed), and
\* it is persisted.
C4_FinalStatus ==
    [][ /\ NoneEligibleStep =>
            progress'.status = IF AllCompleted(prd, progress.completedTasks)
                               THEN "completed" ELSE "blocked"
        /\ FinalSaveStep => diskProgress' = progress ]_vars

C4_Witness ==
    /\ pc = "return"
    /\ diskProgress.status = "blocked"
    /\ diskProgress.currentTask = Null
    /\ findNextTask(prd, progress.completedTasks) = 0
    /\ AllTerminal(diskPrd.userStories, diskProgress.completedTasks)
    /\ exitCode = SUCCESS

\* a status change of the persisted progress record that the state machine allows
AllowedTransition(old, new) ==
    \/ new = "running" /\ old \in {"initialized", "paused", "blocked"}
    \/ old = "running" /\ new \in {"completed", "paused", "blocked"}

\* C5: the persisted status changes only along the state machine: a record
\* created by init (also one that replaces unusable state) starts as
\* initialized; a run start takes initialized, paused, blocked or running to
\* running; running goes to completed, paused or blocked; a record that is
\* completed is never written again.
C5_StatusTransitions ==
    [][ /\ (diskProgress'.kind = "valid" /\ diskProgress' # diskProgress /\ after = "init_done")
            => diskProgress'.status = "initialized"
        /\ (diskProgress'.kind = "valid" /\ diskProgress.kind # "valid")
            => (after = "init_done" /\ diskProgress'.status = "initialized")
        /\ (diskProgress'.kind = "valid" /\ diskProgress.kind = "valid"
              /\ after # "init_done" /\ diskProgress'.status # diskProgress.status)
            => AllowedTransition(diskProgress.status, diskProgress'.status)
        /\ (diskProgress.kind = "valid" /\ diskProgress.status = "completed")
            => diskProgress' = diskProgress ]_vars

C5_Witness ==
    /\ diskProgress.kind = "valid"
    /\ diskProgress.status = "running"
    /\ diskProgress.lastError # Null
    /\ pc = "loop"

\* C6: when an Adapter invocation of the task phase starts or is in flight, and
\* when run returns, the persisted progress record equals the in-memory one.
C6_PersistedBeforeInvocationAndReturn ==
    (pc \in {"call", "exec", "return"} /\ progress.kind = "valid") =>
        diskProgress = progress

C6_Witness ==
    /\ pc = "exec"
    /\ progress.currentTask # Null
    /\ progress.completedTasks # << >>
    /\ diskProgress = progress

\* C7: while an invocation is in flight the persisted record names the task as
\* currentTask and does not list it as completed, so a crash leaves that
\* record; the run that resumes from it selects the same task again and
\* starts it; no started task is in the persisted completedTasks.
C7_CrashRecovery ==
    /\ [](pc = "exec" =>
            /\ diskProgress.currentTask = nextTask.id
            /\ nextTask.id \notin Range(diskProgress.completedTasks))
    /\ [][ (crashedTask # NoStory /\ pc = "loop" /\ pc' # "idle") =>
              /\ nextTask' = crashedTask
              /\ progress'.currentTask = crashedTask.id
              /\ after' = "call" ]_vars

C7_Witness ==
    /\ crashedTask # NoStory
    /\ pc = "loop"
    /\ diskProgress.currentTask = crashedTask.id

\* C8: the two documents are persisted as one unit: at no point of a save is
\* the work item on disk the new version while the progress record on disk
\* is still the previous one.
C8_SavedTogether ==
    (pc = "save_progress" /\ diskPrd.kind = "valid" /\ diskProgress.kind = "valid") =>
        \/ diskPrd = savePrev[1]
        \/ diskProgress = progress

\* C9: at most one invocation is in flight, and a subtask is selected only
\* when no invocation is in flight and the work item and progress record on
\* disk are the ones in memory.
C9_Sequential ==
    /\ inFlight \in {0, 1}
    /\ pc = "loop" =>
        /\ inFlight = 0
        /\ diskPrd = PrdDoc("valid", prd)
        /\ diskProgress = progress

C9_Witness ==
    /\ pc = "loop"
    /\ progress.completedTasks # << >>
    /\ diskProgress = progress

\* the object the engine takes as the outcome of an invocation
OutcomeObject(r) ==
    IF r.structuredOutput.present THEN r.structuredOutput
    ELSE IF r.error THEN NoObject
    ELSE r.json

\* no compaction signal, an outcome object, security check not failed, passes
Succeeded(r) ==
    /\ ~r.contextManagement
    /\ OutcomeObject(r).present
    /\ OutcomeObject(r).securityPassed
    /\ OutcomeObject(r).passes

\* C10: when an execution returns, the task's id is appended at the end of
\* completedTasks iff the outcome is a success, whatever the exit code;
\* currentTask is cleared in every case; on success the status stays running
\* and the loop goes on.
C10_AppendIffSuccess ==
    [][ (pc = "exec" /\ pc' = "save_prd") =>
          /\ progress'.currentTask = Null
          /\ IF Succeeded(callResult')
             THEN /\ progress'.completedTasks =
                        Append(progress.completedTasks, nextTask.id)
                  /\ progress'.status = "running"
                  /\ after' = "loop"
             ELSE /\ progress'.completedTasks = progress.completedTasks
                  /\ after' = "return" ]_vars

C10_Witness ==
    /\ pc = "save_prd"
    /\ after = "loop"
    /\ callResult.error
    /\ callResult.structuredOutput.passes
    /\ progress.completedTasks = << nextTask.id >>
    /\ progress.currentTask = Null

\* an execution of the task phase returns to run
ExecutionReturns == pc = "exec" /\ pc' = "save_prd"

\* a saveState whose caller returns from run afterwards makes progress
LastSaveStep ==
    /\ pc \in {"save_prd", "save_progress"}
    /\ after = "return"
    /\ pc' \in {"save_progress", "return"}

\* the outcome is an explicit block: an outcome object that is taken (no
\* compaction signal), does not fail the security check, does not pass and
\* has status blocked
ExplicitBlock(r) ==
    /\ ~r.contextManagement
    /\ OutcomeObject(r).present
    /\ OutcomeObject(r).securityPassed
    /\ ~OutcomeObject(r).passes
    /\ OutcomeObject(r).status = "blocked"

\* C11: when an execution does not succeed the run stops after that subtask
\* (no further selection or invocation), and the status that is persisted
\* before run returns is blocked if the outcome is an explicit block and
\* paused for every other failure (transport error, parse error, context
\* compaction, security failure, plain non-passing outcome).
C11_PausedOrBlocked ==
    [][ /\ (ExecutionReturns /\ ~Succeeded(callResult')) =>
              /\ after' = "return"
              /\ progress'.status =
                    IF ExplicitBlock(callResult') THEN "blocked" ELSE "paused"
        /\ LastSaveStep =>
              /\ progress' = progress
              /\ inFlight' = 0
              /\ pc' = "return" => diskProgress' = progress ]_vars

C11_Witness ==
    /\ pc = "return"
    /\ exitCode = TASK_BLOCKED
    /\ diskProgress.status = "blocked"
    /\ diskProgress.lastError # Null
    /\ diskProgress.completedTasks # << >>

\* the conversion call of init resolves and init goes on or returns
ConversionReturns == pc = "init" /\ pc' \in {"save_prd", "return"}

C13_CompactionFails ==
    [][ /\ (ExecutionReturns /\ callResult'.contextManagement) =>
              /\ progress'.completedTasks = progress.completedTasks
              /\ nextTask.id \notin Range(progress'.completedTasks)
              /\ after' = "return"
              /\ exitCode' # SUCCESS
        /\ (ConversionReturns /\ callResult'.contextManagement) =>
              /\ pc' = "return"
              /\ exitCode' # SUCCESS
              /\ diskPrd' = diskPrd
              /\ diskProgress' = diskProgress
        /\ pc = "return" => (diskPrd' = diskPrd /\ diskProgress' = diskProgress) ]_vars

C13_Witness ==
    /\ pc = "save_prd"
    /\ after = "return"
    /\ callResult.contextManagement
    /\ callResult.structuredOutput.present
    /\ callResult.structuredOutput.passes
    /\ callResult.structuredOutput.securityPassed
    /\ nextTask.id \notin Range(progress.completedTasks)

\* the execution ends in a transport error, a parse error or a failed
\* security check
ErrorOutcome(r) ==
    /\ ~r.contextManagement
    /\ \/ ~OutcomeObject(r).present
       \/ ~OutcomeObject(r).securityPassed

\* C14: an execution that ends in a transport error, a parse error or a
\* security-check failure stops the loop with no further invocation, and by
\* the time run returns an entry for the subtask has been appended to the
\* error log and the persisted lastError names the subtask.
C14_ErrorsRecorded ==
    [][ /\ (ExecutionReturns /\ ErrorOutcome(callResult')) =>
              /\ after' = "return"
              /\ progress'.lastError = nextTask.id
              /\ nextTask.id \in Range(errorLogged')
        /\ LastSaveStep =>
              /\ progress' = progress
              /\ errorLogged' = errorLogged
              /\ inFlight' = 0
              /\ pc' = "return" => diskProgress' = progress ]_vars

\* both documents of the state directory load and parse
BothLoad == diskPrd.kind = "valid" /\ diskProgress.kind = "valid"

\* a run starts
RunStarts == pc = "idle" /\ pc' # "idle"

\* the run names a template set that is not default and not the pinned one
Conflict(ts, prog) == ts # "default" /\ ts # prog.templateSet

DiskUnchanged == diskPrd' = diskPrd /\ diskProgress' = diskProgress

C16_TemplateSetConflict ==
    [][ /\ (RunStarts /\ BothLoad /\ Conflict(requestedSet', diskProgress)) =>
              /\ pc' = "return"
              /\ exitCode' \notin {SUCCESS, NoExit}
              /\ inFlight' = 0
              /\ DiskUnchanged
        /\ (pc = "return" /\ exitCode = INVALID_ARGS) =>
              (pc' = "idle" /\ DiskUnchanged) ]_vars

C16_Witness ==
    /\ pc = "return"
    /\ exitCode = INVALID_ARGS
    /\ requestedSet = "setA"
    /\ diskProgress.templateSet = "default"
    /\ diskProgress.status = "completed"

\* the conversion fails: transport error without structured result, parse
\* error, context compaction, constraint or path validation failure
ConversionFails(r) ==
    \/ ~r.structuredOutput.present /\ (r.error \/ ~r.json.present)
    \/ r.contextManagement
    \/ ~r.valid

\* a failed conversion writes nothing, a successful one creates the record
\* with its initial values, and without state a run converts
C17_OnlyOnSuccess ==
    [][ /\ (ConversionReturns /\ ConversionFails(callResult')) =>
              /\ pc' = "return"
              /\ exitCode' # SUCCESS
              /\ DiskUnchanged
        /\ (RunStarts /\ exitCode' = FILE_NOT_FOUND) => DiskUnchanged
        /\ pc = "return" => DiskUnchanged
        /\ (ConversionReturns /\ ~ConversionFails(callResult')) =>
              /\ pc' = "save_prd"
              /\ progress'.status = "initialized"
              /\ progress'.completedTasks = << >>
              /\ progress'.currentTask = Null
              /\ progress'.totalTasks = Len(prd')
        /\ (pc = "save_progress" /\ after = "init_done" /\ pc' = "init_done") =>
              (diskPrd' = PrdDoc("valid", prd) /\ diskProgress' = progress)
        /\ (RunStarts /\ diskPrd.kind = "absent" /\ diskProgress.kind = "absent") =>
              (pc' = "init" \/ exitCode' = FILE_NOT_FOUND) ]_vars

\* C17: the two documents are first persisted together (never one without
\* the other), only when conversion succeeds, with status initialized, empty
\* completedTasks, no currentTask and totalTasks the number of subtasks; a
\* failed conversion persists neither and a later run converts again.
C17_CreatedTogetherOnSuccess ==
    /\ [](diskPrd.kind = "absent" <=> diskProgress.kind = "absent")
    /\ C17_OnlyOnSuccess

\* C18: a run takes the work item as existing only if both documents load;
\* if either is missing or unparsable it takes nothing from the state
\* directory, performs conversion and, when that succeeds, overwrites both.
C18_PartialStateIsNoState ==
    [][ /\ (RunStarts /\ ~BothLoad) =>
              /\ pc' = "init" \/ (pc' = "return" /\ exitCode' = FILE_NOT_FOUND)
              /\ prd' = << >>
              /\ progress' = NoProgress
              /\ templateSet' = requestedSet'
              /\ DiskUnchanged
        /\ (RunStarts /\ BothLoad) =>
              /\ pc' \in {"return", "save_prd"}
              /\ prd' = diskPrd.userStories
        /\ (ConversionReturns /\ pc' = "save_prd") =>
              progress' = Progress("valid", "initialized", << >>, Null, Len(prd'),
                                   Null, templateSet, configPath)
        /\ (pc = "save_progress" /\ after = "init_done" /\ pc' = "init_done") =>
              (diskPrd' = PrdDoc("valid", prd) /\ diskProgress' = progress) ]_vars

C18_Witness ==
    /\ pc = "save_progress"
    /\ after = "init_done"
    /\ savePrev[1].kind = "invalid"
    /\ savePrev[2].kind = "valid"
    /\ savePrev[2].completedTasks # << >>
    /\ diskPrd = PrdDoc("valid", prd)

\* C19: the work items of a batch are run one at a time in the given order;
\* a work item is run only if every work item before it ended completed, so
\* the batch stops at the first one that does not; the batch's exit code is
\* the exit code of that run, and the results of the work items processed are
\* kept.
C19_FailFast ==
    /\ Len(results) <= batchIndex
    /\ \A i \in 1..Len(results) : results[i].prdPath = i
    /\ pc # "idle" =>
          /\ batchIndex = Len(results) + 1
          /\ \A i \in 1..Len(results) : results[i].status = "completed"
    /\ \A i \in 1..Len(results) :
          results[i].status # "completed" =>
              /\ i = Len(results)
              /\ stopped
              /\ finalExitCode = results[i].exitCode

\* the ids of the stories, in order
StoryIdSeq(stories) == [ i \in 1..Len(stories) |-> stories[i].id ]

\* C20: in every persisted work item the subtask ids are pairwise distinct,
\* also after an agent-returned object has been stored in place of the
\* executed subtask.
C20_UniqueIds ==
    diskPrd.kind = "valid" => NoDuplicates(StoryIdSeq(diskPrd.userStories))

\* C21: at the end of a run the totals of the usage accumulator are the sums
\* over the invocations of that run that reported usage, the conversion
\* invocation included, with nothing from an earlier run of the process.
C21_UsageTotals ==
    usagePc = "end" => usageStats = reported

\* C22: the templateSet and configPath of the progress record are those of
\* its creation: no step of a run other than init's saveState (which creates
\* the record, also anew over a partial state) changes them on disk; and
\* every task invocation is started with the templateSet of the record, and
\* with the configPath of the record when the record has one, whatever the
\* request named.
C22_Pinned ==
    [][ /\ ( /\ diskProgress.kind = "valid"
             /\ diskProgress'.kind = "valid"
             /\ ~(pc = "save_progress" /\ after = "init_done") ) =>
              /\ diskProgress'.templateSet = diskProgress.templateSet
              /\ diskProgress'.configPath = diskProgress.configPath
        /\ (pc = "call" /\ pc' = "exec") =>
              /\ diskProgress.kind = "valid"
              /\ templateSet = diskProgress.templateSet
              /\ diskProgress.configPath # Null => configPath = diskProgress.configPath ]_vars

\* a task invocation under way in a resumed run whose request named no
\* template set and another configPath than the pinned one
C22_Witness ==
    /\ pc = "exec"
    /\ runs > 1
    /\ diskProgress.kind = "valid"
    /\ diskProgress.templateSet = "setA"
    /\ diskProgress.configPath = "cfgA"
    /\ requestedConfig = "cfgB"
    /\ templateSet = "setA"
    /\ configPath = "cfgA"

\* the named operation of UserConfig has returned or thrown
Called(operation) == configResult # NotCalled /\ configResult.call = operation

\* a document of the legacy shape: options.skipTaskContext and no task
Legacy(doc) == doc.skipTaskContext # "undefined" /\ doc.task.type \in {"undefined", "null"}

MissingKeys(doc) == { key \in {"name", "version", "conversion", "task"} : doc[key] = JsUndefined }

OneMessagePerMissingKey(messages, doc) ==
    /\ Len(messages) = Cardinality(MissingKeys(doc))
    /\ \A key \in MissingKeys(doc) :
        \E i \in 1..Len(messages) : messages[i] = Message("Missing required key", key, -1)

BadElement(item) == item.type # "object" \/ item.tool = "undefined"

BadShape(value) ==
    \/ value.type # "array"
    \/ value.items = << >>
    \/ \E i \in 1..Len(value.items) : BadElement(value.items[i])

\* the list-shape messages of one phase
ShapeMessages(value, arrayName) ==
    IF value.type # "array" THEN << Message("Must be an array", arrayName, -1) >>
    ELSE IF value.items = << >>
    THEN << Message("Array must contain at least one tool config", arrayName, -1) >>
    ELSE LET bad == SelectSeq([ i \in 1..Len(value.items) |-> i ],
                              LAMBDA i : BadElement(value.items[i]))
         IN  [ k \in 1..Len(bad) |->
                 Message(IF value.items[bad[k]].type # "object"
                         THEN "Must be an object" ELSE "Missing required key tool",
                         arrayName, bad[k] - 1) ]

InCurrentShape(doc) == doc.conversion.type = "array" /\ doc.task.type = "array"

\* C25: #migrateSetConfig rewrites a legacy document (options.skipTaskContext
\* and no task) to a default conversion entry and a task entry whose
\* skipContext is the flag; in any other document it wraps a conversion or
\* task that is a single object into a one-element list; the advisory is
\* raised exactly when the document was rewritten; a document whose phases
\* are lists is returned unchanged; migrating the result again changes
\* nothing; and loadSetConfig throws exactly when the migrated document is
\* invalid, so a valid document is loaded unchanged and without advisory.
C25_Migration ==
    /\ Called("migrateSetConfig") =>
          LET doc == setConfig
              result == configResult.setConfig
          IN  /\ result.name = doc.name
              /\ result.version = doc.version
              /\ result.skipTaskContext = doc.skipTaskContext
              /\ Legacy(doc) =>
                    /\ result.conversion =
                          JsArray(<< JsObject("claude", "undefined", "default") >>)
                    /\ result.task =
                          JsArray(<< JsObject("claude", doc.skipTaskContext, "default") >>)
              /\ (~Legacy(doc) /\ doc.conversion.type = "object") =>
                    result.conversion = JsArray(<< doc.conversion >>)
              /\ (~Legacy(doc) /\ doc.task.type = "object") =>
                    result.task = JsArray(<< doc.task >>)
              /\ configResult.advisory = (result # doc)
              /\ InCurrentShape(doc) => result = doc
              /\ migrateSetConfig(result) = Migration(result, FALSE)
    /\ (Called("loadSetConfig") /\ configResult.error.cause # "ENOENT") =>
          /\ configResult.thrown =
                ~validateSetConfig(migrateSetConfig(setConfig).setConfig).valid
          /\ validateSetConfig(setConfig).valid =>
                /\ ~configResult.thrown
                /\ ~configResult.advisory
                /\ configResult.setConfig = setConfig

\* a legacy document that also holds a single conversion object has been migrated
C25_Witness ==
    /\ Called("migrateSetConfig")
    /\ Legacy(setConfig)
    /\ setConfig.conversion = JsObject("claude", "undefined", "unknown")
    /\ configResult.advisory
    /\ configResult.setConfig.task = JsArray(<< JsObject("claude", "true", "default") >>)

Matches(doc, phaseName, name) ==
    { i \in 1..Len(doc[phaseName].items) : doc[phaseName].items[i].tool = name }

\* C26: getToolConfig without a tool name returns the first entry of the
\* phase's list (the engine calls it so), with a tool name the first entry
\* with that tool, and null when the list is absent or empty or no entry
\* matches.
C26_FirstToolConfig ==
    Called("getToolConfig") =>
        LET configs == setConfig[phase].items IN
        /\ toolName = Null =>
              configResult.config = IF configs = << >> THEN JsNull ELSE configs[1]
        /\ toolName # Null =>
              IF Matches(setConfig, phase, toolName) = {}
              THEN configResult.config = JsNull
              ELSE \E i \in Matches(setConfig, phase, toolName) :
                      /\ \A j \in Matches(setConfig, phase, toolName) : i <= j
                      /\ configResult.config = configs[i]

\* two entries of the named tool, and the first was returned
C26_Witness ==
    /\ Called("getToolConfig")
    /\ toolName = "claude"
    /\ phase = "task"
    /\ setConfig.task = JsArray(<< JsObject("claude", "true", "default"),
                                   JsObject("claude", "undefined", "unknown") >>)
    /\ configResult.config = JsObject("claude", "true", "default")

\* C27: a write to a log rewrites the list the writer read with one record
\* appended; with a single writer every write extends the file by exactly
\* one record and keeps the earlier records in order, so the file is the
\* sequence of all records written.  (With two writers a record can be
\* lost: C27_Witness.)
C27_ReadAppendRewrite ==
    [][ \A w \in 1..writers :
          (writerPc[w] = "read" /\ writerPc'[w] = "idle") =>
              /\ Len(logFile') = Len(existingLogs[w]) + 1
              /\ SubSeq(logFile', 1, Len(existingLogs[w])) = existingLogs[w]
              /\ logFile'[Len(logFile')] = written'[Len(written')]
              /\ writers = 1 =>
                    /\ SubSeq(logFile', 1, Len(logFile)) = logFile
                    /\ Len(logFile') = Len(logFile) + 1
                    /\ logFile' = written' ]_vars

\* two writers have finished and a record one of them wrote is not in the file
C27_Witness ==
    /\ writers = 2
    /\ \A w \in 1..writers : writerPc[w] = "idle"
    /\ \E i \in 1..Len(written) :
          \A j \in 1..Len(logFile) : logFile[j] # written[i]

\* the bytes of all chunks from chunk i on
RECURSIVE StreamFrom(_)
StreamFrom(i) == IF i > Len(chunks) THEN << >> ELSE chunks[i] \o StreamFrom(i + 1)

\* C28: when all chunks of the stream have been read, the events obtained
\* chunk by chunk with the carried buffer are the events parsed from the
\* newline-terminated lines of the whole stream, however the stream was cut
\* into chunks.
C28_ChunkedEqualsWhole ==
    fedChunks = Len(chunks) =>
        events = lineEvents(SubSeq(split(toString(StreamFrom(1))), 1,
                                   Len(split(toString(StreamFrom(1)))) - 1), 1)

\* the lines of the output that are assistant messages with a text
TextMessages == { i \in 1..Len(text) : text[i].kind = "assistant" /\ text[i].text # << >> }

StreamForm == Len(text) > 1 /\ text[1].kind \in {"assistant", "event"}

LastMessage == text[CHOOSE i \in TextMessages : \A j \in TextMessages : j <= i].text

\* the part of a message in which a JSON object is looked for: the inside of
\* its first code block, or all of it
Candidate(message) ==
    LET fences == { i \in 1..Len(message) : message[i] = "F" } IN
    IF Cardinality(fences) < 2 THEN message
    ELSE LET first == CHOOSE i \in fences : \A j \in fences : i <= j
             next == CHOOSE i \in fences \ {first} : \A j \in fences \ {first} : i <= j
         IN  SubSeq(message, first + 1, next - 1)

ObjectsOf(str) == SelectSeq(str, LAMBDA token : token \in {"O1", "O2"})

DependenciesNameSubtasks(stories) ==
    \A i \in 1..Len(stories) :
        \A k \in 1..Len(stories[i].dependencies) :
            stories[i].dependencies[k] \in StoryIdsOf(stories)

\* the subtasks can be ranked so that every dependency ranks lower
Acyclic(stories) ==
    \E rank \in [ StoryIdsOf(stories) -> 1..Len(stories) ] :
        \A i \in 1..Len(stories) :
            \A k \in 1..Len(stories[i].dependencies) :
                stories[i].dependencies[k] \in StoryIdsOf(stories) =>
                    rank[stories[i].dependencies[k]] < rank[stories[i].id]

\* the subtasks form a dependency graph: each carries a dependencies list,
\* every dependency id names a subtask, and there is no cycle
DependencyGraph(stories) ==
    /\ \A i \in 1..Len(stories) : stories[i].hasDependencies
    /\ DependenciesNameSubtasks(stories)
    /\ Acyclic(stories)

\* every subtask that is not in completedTasks has a status other than
\* 'completed' and 'failed'
Selectable(stories, completedIds) ==
    \A i \in 1..Len(stories) :
        stories[i].id \notin Range(completedIds) =>
            stories[i].status \notin {"completed", "failed"}

\* a run whose invocations all pass is at the head of its loop
ReliableLoop == reliable /\ pc = "loop"

Occurrences(seq, id) == Cardinality({ k \in 1..Len(seq) : seq[k] = id })

\* the run has ended with status 'completed' persisted and every subtask id
\* once in the persisted completedTasks
EndedCompleted ==
    /\ pc = "return"
    /\ diskPrd.kind = "valid"
    /\ diskProgress.kind = "valid"
    /\ diskProgress.status = "completed"
    /\ \A i \in 1..Len(diskPrd.userStories) :
          Occurrences(diskProgress.completedTasks, diskPrd.userStories[i].id) = 1

\* C30 as stated: an acyclic graph whose dependency ids name subtasks and an
\* agent that always passes lead to a run that ends completed.
C30_Original ==
    (ReliableLoop /\ DependencyGraph(prd)) ~> EndedCompleted

\* C30: a run that is not a dry run and is not killed, whose task invocations
\* all return a passing outcome with the id of the task, and whose work item
\* at the head of the loop has an acyclic dependency graph over its own
\* subtasks with every subtask outside completedTasks in a status other than
\* 'completed' and 'failed', ends
\* with status 'completed' persisted and every subtask id once in
\* completedTasks; it invokes the agent only for a task that is not in
\* completedTasks and every invocation adds the id of its task.
C30_Terminates ==
    /\ [][ reliable =>
             /\ (pc = "call" /\ pc' = "exec") =>
                    nextTask.id \notin Range(progress.completedTasks)
             /\ (pc = "exec" /\ pc' = "save_prd") =>
                    progress'.completedTasks =
                        Append(progress.completedTasks, nextTask.id) ]_vars
    /\ ( /\ ReliableLoop
         /\ DependencyGraph(prd)
         /\ Selectable(prd, progress.completedTasks) ) ~> EndedCompleted

\* a resumed run with a reliable agent has ended completed after an earlier
\* run had stopped on a failure
C30_Witness ==
    /\ reliable
    /\ runs = MaxRuns
    /\ pc = "return"
    /\ diskProgress.kind = "valid"
    /\ diskProgress.status = "completed"
    /\ diskProgress.lastError # Null
    /\ Len(diskProgress.completedTasks) = Len(diskPrd.userStories)
    /\ Len(diskPrd.userStories) >= 2

\* C31: handling the outcome of a task execution leaves the length of the
\* story list and every entry but the one of the executed task as they were,
\* the entry replaced is the one of the executed task, no other step of a run
\* changes the list it has loaded, and the totalTasks of the record a run
\* holds is always the length of the list it holds.
C31_FrameAndTotal ==
    /\ [][ /\ (pc = "exec" /\ pc' = "save_prd") =>
                /\ Len(prd') = Len(prd)
                /\ prd[taskIndex] = nextTask
                /\ \A j \in 1..Len(prd) : j # taskIndex => prd'[j] = prd[j]
           /\ (pc \notin {"idle", "init", "exec"} /\ pc' # "idle") => prd' = prd ]_vars
    /\ [](progress.kind = "valid" => progress.totalTasks = Len(prd))

\* positions of the stories with status 'failed' whose id is not completed
FailedOpen(stories, completedIds) ==
    { i \in 1..Len(stories) :
        stories[i].status = "failed" /\ stories[i].id \notin Range(completedIds) }

\* story i depends on the id through at most n dependency links
RECURSIVE DependsWithin(_, _, _, _)
DependsWithin(stories, i, id, n) ==
    /\ n > 0
    /\ \E k \in 1..Len(stories[i].dependencies) :
          \/ stories[i].dependencies[k] = id
          \/ \E m \in 1..Len(stories) :
                /\ stories[m].id = stories[i].dependencies[k]
                /\ DependsWithin(stories, m, id, n - 1)

DependsOn(stories, i, id) == DependsWithin(stories, i, id, Len(stories))

SelectionStep == pc = "loop" /\ pc' = "save_prd" /\ after' = "call"

\* the stored documents before the step: those on disk, or, when the step
\* is taken between the two writes of a saveState, those on disk when that
\* saveState was called
StoredBefore == IF pc = "save_progress" THEN savePrev ELSE << diskPrd, diskProgress >>

BlockedByDependencies ==
    /\ pc = "loop"
    /\ findNextTask(prd, progress.completedTasks) = 0
    /\ \E i \in 1..Len(prd) :
          prd[i].status # "completed" /\ prd[i].id \notin Range(progress.completedTasks)

\* a run that ended so has returned and the batch takes its result
CollectsBlocked ==
    /\ pc = "return" /\ pc' = "idle"
    /\ progress.kind = "valid"
    /\ progress.status = "blocked"
    /\ progress.lastError = Null

\* C33: a run whose loop finds no eligible task while a subtask is not done
\* saves status 'blocked' with lastError and the work item as they were and
\* returns SUCCESS; the batch neither stops nor changes its exit code on that
\* result, and it skips a work item only after a run returned another code
\* than SUCCESS.
C33_BlockedReturnsSuccess ==
    [][ /\ BlockedByDependencies =>
             /\ pc' = "save_prd" /\ after' = "return"
             /\ progress' = [progress EXCEPT !.status = "blocked"]
             /\ prd' = prd
             /\ exitCode' = SUCCESS
        /\ CollectsBlocked =>
             /\ exitCode = SUCCESS
             /\ results' = Append(results, [ prdPath |-> batchIndex, exitCode |-> SUCCESS,
                                             status |-> "blocked" ])
             /\ stopped' = stopped
             /\ finalExitCode' = finalExitCode
        /\ (pc = "idle" /\ batchIndex' = batchIndex + 1 /\ pc' = "idle") =>
             \E k \in 1..Len(results) : results[k].exitCode # SUCCESS ]_vars

\* the second work item of a batch is being processed after the first one
\* ended blocked by its dependencies
C33_Witness ==
    /\ Len(results) = 1
    /\ results[1].status = "blocked"
    /\ results[1].exitCode = SUCCESS
    /\ batchIndex = 2
    /\ pc = "exec"

\* C34: completedTasks grows only at its end, by the id of the task whose
\* execution has just succeeded; that task is the one the run selected, with
\* all the dependencies it declared then already in the list; a run that
\* resumes starts from the persisted list, and every record written to
\* progress.json is the record of the run that writes it.
C34_ExecutionOrder ==
    [][ /\ SelectionStep =>
             /\ nextTask' \in Range(prd)
             /\ \A k \in 1..Len(nextTask'.dependencies) :
                   nextTask'.dependencies[k] \in Range(progress.completedTasks)
        /\ (pc \in {"save_prd", "save_progress", "call", "exec"} /\ pc' # "idle") =>
             nextTask' = nextTask
        /\ ExecutionReturns =>
             \/ progress'.completedTasks = progress.completedTasks
             \/ /\ progress'.completedTasks = Append(progress.completedTasks, nextTask.id)
                /\ \A k \in 1..Len(nextTask.dependencies) :
                      nextTask.dependencies[k] \in Range(progress.completedTasks)
        /\ (pc \notin {"idle", "init", "exec"} /\ pc' # "idle") =>
             progress'.completedTasks = progress.completedTasks
        /\ (pc = "idle" /\ pc' # "idle" /\ BothLoad) =>
             progress'.completedTasks = diskProgress.completedTasks
        /\ (diskProgress' # diskProgress /\ diskProgress'.kind = "valid") =>
             diskProgress' = progress ]_vars

\* a resumed run has persisted a list in which a task follows its dependency
C34_Witness ==
    /\ runs >= 2
    /\ pc = "loop"
    /\ diskProgress.kind = "valid"
    /\ Len(diskProgress.completedTasks) = 2
    /\ \E i \in 1..Len(prd) :
          /\ prd[i].id = diskProgress.completedTasks[2]
          /\ prd[i].dependencies = << diskProgress.completedTasks[1] >>

\* C35: whatever outcome objects earlier runs stored in the work item,
\* findNextTask raises no exception at the head of the loop, and a run that
\* entered its loop ends with status 'completed', 'paused' or 'blocked'
\* instead of the exit of an uncaught exception.
C35_SelectionTotal ==
    /\ pc = "loop" => findNextTask(prd, progress.completedTasks) # Throws
    /\ pc = "return" => exitCode # UNKNOWN

\* the text left in the carried buffer is a result event
UnterminatedResult == parses(streamBuffer) /\ trim(streamBuffer)[1] = "q"

\* the last of the newline-terminated lines of the handled text that is a
\* result event, null when there is none
RECURSIVE LastTerminatedResult(_, _)
LastTerminatedResult(lines, i) ==
    IF i = 0 THEN Null
    ELSE IF parses(lines[i]) /\ trim(lines[i])[1] = "q" THEN trim(lines[i])
    ELSE LastTerminatedResult(lines, i - 1)

\* the characters handled: each chunk decoded on its own, from chunk i on
RECURSIVE DecodedFrom(_)
DecodedFrom(i) ==
    IF i > Len(chunks) THEN << >> ELSE toString(chunks[i]) \o DecodedFrom(i + 1)

\* C36: when the child closes, the text after the last newline stays in the
\* carried buffer and is not parsed: no event is added, and the structured
\* result and the usage callClaude resolves with are those of the last
\* result event among the newline-terminated lines, null when there is none,
\* whatever the unterminated last line holds.
C36_NoFlushOnClose ==
    [][ (resolved = NotCalled /\ resolved' # NotCalled) =>
            /\ events' = events
            /\ streamBuffer' = streamBuffer
            /\ LET lines == split(DecodedFrom(1)) IN
                /\ streamBuffer = lines[Len(lines)]
                /\ resolved'.structuredOutput = LastTerminatedResult(lines, Len(lines) - 1)
                /\ resolved'.usage = LastTerminatedResult(lines, Len(lines) - 1) ]_vars

\* the child closed with a result event in the buffer and nothing resolved
C36_Witness ==
    /\ resolved # NotCalled
    /\ UnterminatedResult
    /\ resolved.structuredOutput = Null
    /\ resolved.usage = Null
    /\ Len(chunks) >= 2

\* the text of a file name before its first "."
StemOf(name) ==
    LET k == CHOOSE k \in 0..Len(name) :
                 /\ \A i \in 1..k : name[i] # "."
                 /\ k = Len(name) \/ name[k + 1] = "."
    IN  SubSeq(name, 1, k)

C38_LastErrorKept ==
    [][ /\ (pc = "init" /\ pc' = "save_prd") => progress'.lastError = Null
        /\ ExecutionReturns =>
             progress'.lastError = IF Succeeded(callResult') THEN progress.lastError
                                   ELSE nextTask.id
        /\ (pc \notin {"idle", "init", "exec"} /\ pc' # "idle") =>
             progress'.lastError = progress.lastError
        /\ (pc = "idle" /\ pc' # "idle" /\ BothLoad) =>
             progress'.lastError = diskProgress.lastError
        /\ (diskProgress' # diskProgress /\ diskProgress'.kind = "valid") =>
             /\ diskProgress'.lastError = progress.lastError
             /\ ( /\ diskProgress.kind = "valid"
                  /\ diskProgress.lastError # Null
                  /\ diskProgress'.lastError = Null ) =>
                     diskProgress'.status = "initialized" ]_vars

\* a record has reached 'completed' and carries the error of a task that is
\* in completedTasks
C38_Witness ==
    /\ pc = "idle"
    /\ BothLoad
    /\ diskProgress.status = "completed"
    /\ diskProgress.lastError \in Range(diskProgress.completedTasks)

\* a writer's read and a writer's completed write
ReadsLog(w) == writerPc[w] = "idle" /\ writerPc'[w] = "read"
CompletesWrite(w) == writerPc[w] = "read" /\ writerPc'[w] = "idle" /\ ~logDamaged'

\* C39: a writer that finds a file it cannot parse goes on with the empty
\* list; its write completes (the call returns, with success: true, the only
\* value it returns), leaves a file that parses and holds the list the
\* writer had with the new record at its end; so with a single writer a
\* write on an unparsable file leaves the new record alone, none of the
\* records written before in it.
C39_UnreadableLogReplaced ==
    [][ \A w \in 1..writers :
          /\ (ReadsLog(w) /\ logDamaged) => existingLogs'[w] = << >>
          /\ CompletesWrite(w) =>
                /\ Len(written') = Len(written) + 1
                /\ logFile' = Append(existingLogs[w], written'[Len(written')])
          /\ (CompletesWrite(w) /\ logDamaged /\ writers = 1) =>
                /\ logFile' = << written'[Len(written')] >>
                /\ \A k \in 1..Len(written) : written[k] # logFile'[1] ]_vars

\* the only writer has completed a write on a file that did not parse: of
\* the records written, only the last is in the file
C39_Witness ==
    /\ writers = 1
    /\ writerPc[1] = "idle"
    /\ ~logDamaged
    /\ Len(written) >= 2
    /\ logFile = << written[Len(written)] >>

====
